---- MODULE Spec2Model ----
(***************************************************************************)
(* Model of the googly-mapulous service objects: Marker, Cluster and       *)
(* GoogleMap.  One GoogleMap, one Cluster, a pool of user-constructed      *)
(* Marker objects and the aggregate Marker objects that clustering passes  *)
(* create.  Positions are metres on a plane; the Google geometry library   *)
(* (computeDistanceBetween) is modelled as the Euclidean distance.         *)
(* A JavaScript exception ends the running call where it is raised: every  *)
(* operator that models a method returns the state reached and a flag      *)
(* `threw`.                                                                *)
(***************************************************************************)
EXTENDS Integers, Sequences, FiniteSets, TLC

VARIABLES
    markers,         \* Marker objects: id -> Marker state (Marker.prototype.state copy)
    mapMarkers,      \* GoogleMap.state.markers
    zoom,            \* zoom level of the google.maps.Map
    clListeners,     \* zoom_changed listeners registered by Cluster.setMap (state.map is set iff > 0)
    clMarkers,       \* Cluster.state.markers (master list)
    clCurrent,       \* Cluster.state.currentMarkers (display markers)
    clPending,       \* debounced zoom_changed listeners of the cluster whose timer is pending
    clusterMapping,  \* Cluster.prototype.config.clusterMapping
    passes,          \* clustering passes run so far
    last,            \* the last public call and how it ended
    groupCall,       \* the last direct call of Cluster.group and its result
    infobox,         \* Marker.state.infobox of every Marker: "none", or the InfoBox "closed" or "open"
    anchorListener,  \* the InfoBox library follows its anchor: an open InfoBox closes when the anchor leaves the map
    gmState,         \* GoogleMap.state: fittingBounds and the $compile service
    gmOwn,           \* the property fittingBounds of the GoogleMap object itself
    widget,          \* the google.maps.Map: its center, and whether a bounds_changed event is due
    gmPending,       \* the debounced zoom_changed listener of the GoogleMap: 1 while its timer is pending
    mapCall,         \* the last call of a GoogleMap or infobox method and how it ended
    db,              \* a function wrapped by debounce: the closure's variables, the clock and what happened
    mount,           \* the googleMap directive on one element, and the calls of the GoogleMap constructor
    hook             \* the beforeCreate callback of the cluster and the constructor calls of its aggregates

\* the variables of the GoogleMap's view and of the infoboxes' library
viewVars == <<anchorListener, gmState, gmOwn, widget, gmPending, mapCall, db, mount, hook>>

vars == <<markers, mapMarkers, zoom, clListeners, clMarkers, clCurrent, clPending,
          clusterMapping, passes, last, groupCall, infobox, anchorListener,
          gmState, gmOwn, widget, gmPending, mapCall, db, mount, hook>>

-----------------------------------------------------------------------------
(* Bounds *)

MaxPasses == 2         \* clustering passes in one run
MaxLen == 3            \* longest marker list handed to a direct call of Cluster.group
MaxMaster == 3         \* longest master list
MaxListeners == 1      \* successful calls of Cluster.setMap
MaxTime == 6           \* instants of the clock of a debounced function
MaxCalls == 3          \* calls of a debounced function in one run

\* the empty array that addMarkers([]) pushes onto the master list
EmptyArray == 0

ZoomLevels == {8, 15}
Distances == {0, 800, 6000}

\* Positions the caller constructs markers at.  Every coordinate is a multiple
\* of 60, so that the mean of up to six coordinates is a whole number.
PoolPoints ==
    << [lat |-> 1200,  lng |-> 1200],
       [lat |-> 1200,  lng |-> 1800],
       [lat |-> -1200, lng |-> 1200],
       [lat |-> 1200,  lng |-> 600],
       [lat |-> 24000, lng |-> 24000],
       [lat |-> 0,     lng |-> 1200] >>

PoolPos(i) == PoolPoints[i]

\* the markers the caller hands to the cluster: the first three of the pool.
\* 1 and 2 are 600 m apart, 3 is 2400 m from 1, and the mean latitude of 1
\* and 3 (and of 2 and 3) is 0
ClusterPoints == SubSeq(PoolPoints, 1, 3)

UserIds == 1..Len(ClusterPoints)
\* a pass creates at most one aggregate for every two markers
AggIds == (Len(ClusterPoints) + 1)..(Len(ClusterPoints) + MaxPasses * (Len(ClusterPoints) \div 2))
Ids == UserIds \cup AggIds
\* the markers of direct calls of Cluster.group: the whole pool
GroupIds == 1..Len(PoolPoints)

-----------------------------------------------------------------------------
(* Sequences *)

Last(s) == s[Len(s)]
Front(s) == SubSeq(s, 1, Len(s) - 1)
Range(s) == {s[i] : i \in 1..Len(s)}
RemoveAt(s, i) == SubSeq(s, 1, i - 1) \o SubSeq(s, i + 1, Len(s))

\* Array.prototype.indexOf, 1-based; 0 when absent
IndexOf(s, x) ==
    IF \E i \in 1..Len(s) : s[i] = x
    THEN CHOOSE i \in 1..Len(s) : s[i] = x /\ \A j \in 1..(i - 1) : s[j] # x
    ELSE 0

RECURSIVE SeqsUpTo(_, _)
SeqsUpTo(S, n) ==
    IF n = 0 THEN {<<>>}
    ELSE LET shorter == SeqsUpTo(S, n - 1)
         IN shorter \cup {Append(s, x) : s \in {t \in shorter : Len(t) = n - 1}, x \in S}

RECURSIVE SumSeq(_)
SumSeq(s) == IF s = <<>> THEN 0 ELSE s[1] + SumSeq(Tail(s))

Count(s, x) == Cardinality({i \in 1..Len(s) : s[i] = x})

-----------------------------------------------------------------------------
(* Marker *)

\* Marker.prototype.state, shared by every object whose constructor failed
ProtoState ==
    [created |-> FALSE, widget |-> FALSE, lat |-> 0, lng |-> 0,
     map |-> FALSE, wmap |-> FALSE, visible |-> TRUE, members |-> <<>>]

\* new Marker( lat, lng ) without a map: the constructor needs truthy lat and lng
NewMarkerState(lat, lng) ==
    IF lat # 0 /\ lng # 0
    THEN [ProtoState EXCEPT !.created = TRUE, !.widget = TRUE, !.lat = lat, !.lng = lng]
    ELSE [ProtoState EXCEPT !.created = TRUE]

RECURSIVE SqrtSearch(_, _, _)
\* the least r in lo..hi with r * r >= n
SqrtSearch(n, lo, hi) ==
    IF lo >= hi THEN lo
    ELSE LET mid == (lo + hi) \div 2
         IN IF mid * mid >= n THEN SqrtSearch(n, lo, mid) ELSE SqrtSearch(n, mid + 1, hi)

\* the least r with r * r >= n; the squares of the search stay below 2^31
CeilSqrt(n) == SqrtSearch(n, 0, 46340)

\* google.maps.geometry.spherical.computeDistanceBetween, rounded up to whole
\* metres (distances are compared with whole numbers only)
computeDistanceBetween(p, q) ==
    CeilSqrt((p.lat - q.lat) * (p.lat - q.lat) + (p.lng - q.lng) * (p.lng - q.lng))

getPosition(mk, m) == [lat |-> mk[m].lat, lng |-> mk[m].lng]

isVisible(mk, m) == mk[m].visible

-----------------------------------------------------------------------------
(* Cluster.group *)

\* Cluster.prototype.config.clusterMapping as shipped: level -> metres, 0 for
\* a level without an entry; entries are the levels the object has a key for
DefaultMapping ==
    [level |-> [z \in 0..22 |->
                   CASE z = 8 -> 6000 [] z = 9 -> 4500 [] z = 10 -> 3000
                     [] z = 11 -> 2500 [] z = 12 -> 1500 [] z = 13 -> 1500
                     [] z = 14 -> 1000 [] z = 15 -> 800 [] OTHER -> 0],
     default |-> 10000, entries |-> 8..15]

getGroupingDistance(mapping, mapZoom) ==
    LET groupDistance == IF mapping.level[mapZoom] # 0
                         THEN mapping.level[mapZoom] ELSE mapping.default
    IN IF groupDistance # 0 THEN groupDistance ELSE 0

RECURSIVE NeighborLoop(_, _, _, _, _, _)
\* the for loop of findMarkerNeighbors, i running from the end of scratch down
NeighborLoop(mk, marker, distance, scratch, group, i) ==
    IF i = 0 THEN [group |-> group, scratch |-> scratch]
    ELSE IF computeDistanceBetween(getPosition(mk, marker), getPosition(mk, scratch[i]))
              <= distance
         THEN NeighborLoop(mk, marker, distance, RemoveAt(scratch, i),
                           Append(group, scratch[i]), i - 1)
         ELSE NeighborLoop(mk, marker, distance, scratch, group, i - 1)

\* findMarkerNeighbors accepting markers up to twice the distance away
findMarkerNeighborsWide(mk, marker, distance, scratch) ==
    NeighborLoop(mk, marker, 2 * distance, scratch, <<marker>>, Len(scratch))

\* findMarkerNeighbors that takes no neighbor out of the scratch list
findMarkerNeighborsAlone(mk, marker, distance, scratch) ==
    [group |-> <<marker>>, scratch |-> scratch]

findMarkerNeighbors(mk, marker, distance, scratch) ==
    NeighborLoop(mk, marker, distance, scratch, <<marker>>, Len(scratch))

\* findMarkerGroups without the branch that saves the one marker left over
RECURSIVE findMarkerGroupsNoLeftover(_, _, _, _)
findMarkerGroupsNoLeftover(mk, distance, scratch, grouped) ==
    LET found == findMarkerNeighbors(mk, Last(scratch), distance, Front(scratch))
        saved == Append(grouped, found.group)
    IN IF Len(found.scratch) > 1
       THEN findMarkerGroupsNoLeftover(mk, distance, found.scratch, saved)
       ELSE saved

RECURSIVE findMarkerGroups(_, _, _, _)
findMarkerGroups(mk, distance, scratch, grouped) ==
    LET found == findMarkerNeighbors(mk, Last(scratch), distance, Front(scratch))
        saved == Append(grouped, found.group)
    IN IF Len(found.scratch) > 1
       THEN findMarkerGroups(mk, distance, found.scratch, saved)
       ELSE IF Len(found.scratch) = 1
            THEN Append(saved, <<found.scratch[1]>>)
            ELSE saved

Centroid(mk, group) ==
    [lat |-> SumSeq([i \in 1..Len(group) |-> mk[group[i]].lat]) \div Len(group),
     lng |-> SumSeq([i \in 1..Len(group) |-> mk[group[i]].lng]) \div Len(group)]

\* the value of a call of group: an exception, nothing (the error branch), or
\* the formatted groups
Threw == [threw |-> TRUE, ok |-> FALSE, groups |-> <<>>]
Nothing == [threw |-> FALSE, ok |-> FALSE, groups |-> <<>>]

\* Cluster.prototype.group( markers, distance ): hasList / hasDistance tell
\* whether the argument was passed
group(mk, attached, master, mapping, mapZoom, hasList, list, hasDistance, dist) ==
    LET ms == IF hasList THEN list ELSE master
        needZoom == ~hasDistance \/ dist = 0
        distance == IF needZoom THEN getGroupingDistance(mapping, mapZoom) ELSE dist
    IN IF needZoom /\ ~attached THEN Threw
       ELSE IF Len(ms) > 0 /\ distance # 0
            THEN IF \E i \in 1..Len(ms) : ms[i] = EmptyArray \/ ~mk[ms[i]].widget
                 THEN Threw
                 ELSE LET grouped == findMarkerGroups(mk, distance, ms, <<>>)
                      IN [threw |-> FALSE, ok |-> TRUE,
                          groups |-> [g \in 1..Len(grouped) |->
                                        [markers |-> grouped[g],
                                         centroid |-> Centroid(mk, grouped[g])]]]
            ELSE Nothing

-----------------------------------------------------------------------------
(* Marker methods.  w is the part of the state a call can change:            *)
(* w.mk the Marker objects, w.mm GoogleMap.state.markers, w.cur the          *)
(* cluster's currentMarkers, w.ib the infoboxes.  A result is [w, threw].    *)

Ok(w) == [w |-> w, threw |-> FALSE]
Fail(w) == [w |-> w, threw |-> TRUE]

\* state.marker.setMap( null ) seen from the marker's InfoBox: the library with
\* the listener on its anchor takes an open InfoBox off the map as well
AnchorGone(ib, m) ==
    IF anchorListener /\ ib[m] = "open" THEN [ib EXCEPT ![m] = "closed"] ELSE ib

\* this.state.map.markers in Marker.remove: the GoogleMap object keeps its
\* list in state.markers and has no property `markers`, so this is undefined
MapObjectMarkers(mm) == <<>>

RECURSIVE BookkeepingLoop(_, _, _)
\* for ( i = length; i > 0; i-- ) if ( list[ i ] === this ) list.splice( i, 1 )
\* with 0-based i: the 1-based positions Len + 1 down to 2
BookkeepingLoop(list, m, i) ==
    IF i <= 0 THEN list
    ELSE IF i + 1 <= Len(list) /\ list[i + 1] = m
         THEN BookkeepingLoop(RemoveAt(list, i + 1), m, i - 1)
         ELSE BookkeepingLoop(list, m, i - 1)

\* Marker.prototype.remove
MarkerRemove(w, m) ==
    LET book == MapObjectMarkers(w.mm)
        mm1 == IF w.mk[m].map /\ Len(book) > 0
               THEN BookkeepingLoop(book, m, Len(book)) ELSE w.mm
    IN IF ~w.mk[m].widget THEN Fail([w EXCEPT !.mm = mm1])
       ELSE Ok([w EXCEPT !.mm = mm1, !.mk[m].wmap = FALSE, !.mk[m].map = FALSE,
                         !.ib = AnchorGone(w.ib, m)])

\* addToMap that pushes the marker without looking for it in the list
MarkerAddToMapPushing(w, m) ==
    IF ~w.mk[m].widget THEN Fail(w)
    ELSE Ok([w EXCEPT !.mk[m].wmap = TRUE, !.mk[m].map = TRUE, !.mm = Append(w.mm, m)])

\* Marker.prototype.addToMap
MarkerAddToMap(w, m) ==
    IF ~w.mk[m].widget THEN Fail(w)
    ELSE Ok([w EXCEPT !.mk[m].wmap = TRUE, !.mk[m].map = TRUE,
                      !.mm = IF IndexOf(w.mm, m) = 0 THEN Append(w.mm, m) ELSE w.mm])

\* Marker.prototype.show
MarkerShow(w, m) ==
    IF w.mk[m].map
    THEN Ok([w EXCEPT !.mk[m].wmap = TRUE, !.mk[m].visible = TRUE])
    ELSE Ok(w)

\* hide that forgets the map, as remove does
MarkerHideForgettingMap(w, m) ==
    IF ~w.mk[m].widget THEN Fail(w)
    ELSE Ok([w EXCEPT !.mk[m].wmap = FALSE, !.mk[m].visible = FALSE,
                      !.mk[m].map = FALSE, !.ib = AnchorGone(w.ib, m)])

\* Marker.prototype.hide
MarkerHide(w, m) ==
    IF ~w.mk[m].widget THEN Fail(w)
    ELSE Ok([w EXCEPT !.mk[m].wmap = FALSE, !.mk[m].visible = FALSE,
                      !.ib = AnchorGone(w.ib, m)])

RECURSIVE MapAddMarkersLoop(_, _, _)
MapAddMarkersLoop(w, ms, i) ==
    IF i > Len(ms) THEN Ok(w)
    ELSE LET r == MarkerAddToMap(w, ms[i])
         IN IF r.threw THEN r
            ELSE MapAddMarkersLoop(
                   [r.w EXCEPT !.mm = IF IndexOf(r.w.mm, ms[i]) = 0
                                      THEN Append(r.w.mm, ms[i]) ELSE r.w.mm],
                   ms, i + 1)

\* GoogleMap.prototype.addMarkers with an array (or one Marker, wrapped)
MapAddMarkers(w, ms) == MapAddMarkersLoop(w, ms, 1)

\* new Marker( lat, lng, map ): the object gets the id `id`
NewMarkerOnMap(w, id, lat, lng) ==
    LET st == NewMarkerState(lat, lng)
        w1 == [w EXCEPT !.mk[id] = st]
    IN IF st.widget THEN MapAddMarkers(w1, <<id>>) ELSE Ok(w1)

-----------------------------------------------------------------------------
(* GoogleMap and infobox methods.  A result is [w, threw, returned]; the     *)
(* value returned matters for removeMarker only.                             *)

Return(w, value) == [w |-> w, threw |-> FALSE, returned |-> value]
Raise(w) == [w |-> w, threw |-> TRUE, returned |-> FALSE]
\* the outcome r of a Marker method as the outcome of the method calling it
Returned(r, value) == [w |-> r.w, threw |-> r.threw, returned |-> ~r.threw /\ value]

\* Marker.prototype.closeInfobox on the infoboxes ib
closeInfobox(ib, m) == IF ib[m] = "open" THEN [ib EXCEPT ![m] = "closed"] ELSE ib

\* GoogleMap.prototype.closeInfoboxes: closeInfobox of every tracked marker
closeInfoboxes(w) ==
    [w EXCEPT !.ib = [m \in DOMAIN w.ib |->
                        IF m \in Range(w.mm) /\ w.ib[m] = "open" THEN "closed" ELSE w.ib[m]]]

\* Marker.prototype.openInfobox: this.state.map.state.map needs the map
openInfobox(w, m) ==
    IF w.ib[m] = "none" THEN Ok(w)
    ELSE IF ~w.mk[m].map THEN Fail(w)
    ELSE Ok([w EXCEPT !.ib[m] = "open"])

\* a listener that only opens the marker's own infobox
OpenOnEventKeepingOthers(w, m) ==
    IF ~w.mk[m].map THEN Fail(w) ELSE openInfobox(w, m)

\* the mouseover / click listener that addInfobox registers
OpenOnEvent(w, m) ==
    IF ~w.mk[m].map THEN Fail(w) ELSE openInfobox(closeInfoboxes(w), m)

\* GoogleMap.prototype.compile: does it reach the compiler
CanCompile(hasContent) == hasContent /\ gmState.compile

\* Marker.prototype.addInfobox: compiles the content through the marker's map
\* and creates the InfoBox
addInfobox(w, m, hasContent) ==
    IF ~w.mk[m].map \/ ~CanCompile(hasContent) THEN Fail(w)
    ELSE Ok([w EXCEPT !.ib[m] = "closed"])

RECURSIVE RemoveMarkerLoop(_, _, _)
\* for ( i = length; i > 0; i-- ) if ( markers[ i ] === marker ) ... of
\* GoogleMap.prototype.removeMarker, i 0-based: the 1-based positions
\* Len + 1 down to 2
RemoveMarkerLoop(w, m, i) ==
    IF i <= 0 THEN Return(w, FALSE)
    ELSE IF i + 1 <= Len(w.mm) /\ w.mm[i + 1] = m
         THEN Returned(MarkerRemove([w EXCEPT !.mm = RemoveAt(w.mm, i + 1)], m), TRUE)
         ELSE RemoveMarkerLoop(w, m, i - 1)

\* GoogleMap.prototype.removeMarker( marker )
MapRemoveMarker(w, m) == RemoveMarkerLoop(w, m, Len(w.mm))

RECURSIVE RemoveEach(_, _, _)
\* markers.forEach( marker.remove() ) of GoogleMap.prototype.clearMarkers
RemoveEach(w, ms, i) ==
    IF i > Len(ms) THEN Ok(w)
    ELSE LET r == MarkerRemove(w, ms[i])
         IN IF r.threw THEN r ELSE RemoveEach(r.w, ms, i + 1)

\* the end of clearMarkers, r the outcome of the forEach
ClearedList(r) == IF r.threw THEN r ELSE Ok([r.w EXCEPT !.mm = <<>>])

\* clearMarkers that empties the list without calling marker.remove()
MapClearMarkersListOnly(w) == Ok([w EXCEPT !.mm = <<>>])

\* GoogleMap.prototype.clearMarkers
MapClearMarkers(w) ==
    IF Len(w.mm) > 0 THEN ClearedList(RemoveEach(w, w.mm, 1)) ELSE Ok(w)

\* GoogleMap.prototype.hasMarkers
hasMarkers(mm) == Len(mm) > 0

\* the list GoogleMap.prototype.fitBounds works on
FitList(hasList, list) == IF hasList THEN list ELSE mapMarkers

\* markers.filter( isVisible ) of fitBounds
FitVisible(list) == SelectSeq(list, LAMBDA m : isVisible(markers, m))

\* fitBounds that fits whatever list is not empty
FitsBoundsHiddenToo(hasList, list) == Len(FitList(hasList, list)) > 0

\* fitBounds reaches this.state.map.fitBounds( bounds )
FitsBounds(hasList, list) ==
    /\ Len(FitList(hasList, list)) > 0
    /\ Len(FitVisible(FitList(hasList, list))) > 0

\* the guard of GoogleMap.prototype.zoom
ZoomAccepted(level) == level # 0 /\ level >= 0 /\ level <= 22

\* the guard of GoogleMap.prototype.center; a missing argument is undefined
Truthy(arg) == arg.given /\ arg.value # 0
CenterAccepted(lat, lng) == Truthy(lat) /\ Truthy(lng)

\* ! this.fittingBounds in the zoom_changed listener of bindInternalEvents
NotFittingBounds == gmOwn # "true"

-----------------------------------------------------------------------------
(* Cluster methods *)

RECURSIVE ClearLoop(_, _, _)
ClearLoop(w, cur, i) ==
    IF i > Len(cur) THEN Ok(w)
    ELSE LET r == MarkerRemove(w, cur[i])
         IN IF r.threw THEN r ELSE ClearLoop(r.w, cur, i + 1)

\* clearMarkers that removes the markers from the map and keeps the list
ClearMarkersKeepingList(w, attached) ==
    IF attached /\ Len(w.cur) > 0 THEN ClearLoop(w, w.cur, 1) ELSE Ok(w)

\* Cluster.prototype.clearMarkers
ClearMarkers(w, attached) ==
    IF attached /\ Len(w.cur) > 0
    THEN LET r == ClearLoop(w, w.cur, 1)
         IN IF r.threw THEN r ELSE Ok([r.w EXCEPT !.cur = <<>>])
    ELSE Ok(w)

\* Cluster.prototype.displayClusterMarkers
DisplayClusterMarkers(w, attached) ==
    IF attached /\ Len(w.cur) > 0 THEN MapAddMarkers(w, w.cur) ELSE Ok(w)

FreeAggIds(mk) == {a \in AggIds : ~mk[a].created}
NextAggId(mk) == CHOOSE a \in FreeAggIds(mk) : \A b \in FreeAggIds(mk) : a <= b

\* clusterMarker.markers = group.markers; currentMarkers.push( clusterMarker ),
\* r the outcome of new Marker
PushClusterMarker(r, id, members) ==
    IF r.threw THEN r
    ELSE Ok([r.w EXCEPT !.mk[id].members = members, !.cur = Append(r.w.cur, id)])

\* one group of groups.forEach without the branch for a group of one
BuildGroupAggregatesOnly(w, grp) ==
    IF Len(grp.markers) > 1
    THEN PushClusterMarker(NewMarkerOnMap(w, NextAggId(w.mk), grp.centroid.lat,
                                          grp.centroid.lng),
                           NextAggId(w.mk), grp.markers)
    ELSE Ok(w)

\* one group of groups.forEach of clusterMarkers: an aggregate Marker for a
\* group of more than one, the marker itself for a group of one
BuildGroup(w, grp) ==
    IF Len(grp.markers) > 1
    THEN PushClusterMarker(NewMarkerOnMap(w, NextAggId(w.mk), grp.centroid.lat,
                                          grp.centroid.lng),
                           NextAggId(w.mk), grp.markers)
    ELSE Ok([w EXCEPT !.cur = Append(w.cur, grp.markers[1])])

RECURSIVE BuildLoop(_, _, _)
\* groups.forEach of clusterMarkers
BuildLoop(w, groups, g) ==
    IF g > Len(groups) THEN Ok(w)
    ELSE LET r == BuildGroup(w, groups[g])
         IN IF r.threw THEN r ELSE BuildLoop(r.w, groups, g + 1)

\* the filter of clusterMarkers letting every marker through
VisibleMarkersUnfiltered(mk, master) == master

\* markers.filter( isVisible ) of clusterMarkers
VisibleMarkers(mk, master) == SelectSeq(master, LAMBDA m : isVisible(mk, m))

\* the call this.group( visibleMarkers ) of clusterMarkers
PassGroups(mk, master, mapping, mapZoom) ==
    group(mk, TRUE, master, mapping, mapZoom,
          TRUE, VisibleMarkers(mk, master), FALSE, 0)

\* the outcome of a clusterMarkers that found its map
Ran(r) == [w |-> r.w, threw |-> r.threw, ran |-> TRUE]

\* clusterMarkers from groups.forEach on, b the outcome of the forEach
AfterBuild(b) ==
    IF b.threw THEN Ran(b) ELSE Ran(DisplayClusterMarkers(b.w, TRUE))

\* clusterMarkers from the test of the groups on
AfterGroup(w, groups) ==
    IF groups.threw THEN Ran(Fail(w))
    ELSE IF ~groups.ok \/ Len(groups.groups) = 0 THEN Ran(Ok(w))
    ELSE AfterBuild(BuildLoop(w, groups.groups, 1))

\* clusterMarkers after clearMarkers, c the outcome of clearMarkers
AfterClear(c, master, mapping, mapZoom) ==
    IF c.threw THEN Ran(c)
    ELSE IF Len(master) = 0 THEN Ran(c)
    ELSE IF EmptyArray \in Range(master) THEN Ran(Fail(c.w))
    ELSE IF Len(VisibleMarkers(c.w.mk, master)) = 0 THEN Ran(c)
    ELSE AfterGroup(c.w, PassGroups(c.w.mk, master, mapping, mapZoom))

\* clusterMarkers that does not look at state.map
clusterMarkersWithoutMap(w, attached, master, mapping, mapZoom) ==
    AfterClear(ClearMarkers(w, attached), master, mapping, mapZoom)

\* Cluster.prototype.clusterMarkers.  ran: the map was set
clusterMarkers(w, attached, master, mapping, mapZoom) ==
    IF ~attached THEN [w |-> w, threw |-> FALSE, ran |-> FALSE]
    ELSE AfterClear(ClearMarkers(w, attached), master, mapping, mapZoom)

\* Cluster.prototype.removeMarker
removeMarker(master, m) ==
    IF IndexOf(master, m) > 0 THEN RemoveAt(master, IndexOf(master, m)) ELSE master

RECURSIVE removeAll(_, _)
\* markers.forEach( removeMarker ) of Cluster.prototype.removeMarkers
removeAll(master, ms) ==
    IF ms = <<>> THEN master ELSE removeAll(removeMarker(master, ms[1]), Tail(ms))

\* the pushes of Cluster.prototype.addMarkers: an array with elements is
\* pushed element by element, anything else (a Marker, the empty array) whole
pushMarkers(master, arg) ==
    IF arg.isArray /\ Len(arg.items) = 0 THEN Append(master, EmptyArray)
    ELSE master \o arg.items

\* Cluster.prototype.setClusterZoomMapping: every key of the argument is
\* written into the shared mapping
setClusterZoomMapping(mapping, arg) ==
    [level |-> [z \in 0..22 |-> IF z \in DOMAIN arg.level THEN arg.level[z]
                                ELSE mapping.level[z]],
     default |-> IF arg.hasDefault THEN arg.default ELSE mapping.default,
     entries |-> mapping.entries \cup DOMAIN arg.level]

-----------------------------------------------------------------------------
(* Inputs of the calls *)

\* arguments of Cluster.addMarkers: arrays of up to two different markers
\* (the empty array included) and single Marker objects; the caller adds its
\* markers in the order it constructed them, none of them twice
AddArgs ==
    {[isArray |-> TRUE, items |-> ms] :
        ms \in {t \in SeqsUpTo(UserIds, 2) : \A i, j \in 1..Len(t) : i < j => t[i] < t[j]}}
      \cup {[isArray |-> FALSE, items |-> <<m>>] : m \in UserIds}

RemoveArgs == SeqsUpTo(UserIds, 1)

\* arguments of setClusterZoomMapping: one that leaves level 15 without a
\* distance, and the shipped values
MappingArgs ==
    { [level |-> (15 :> 0), hasDefault |-> TRUE, default |-> 0],
      [level |-> (15 :> 800), hasDefault |-> TRUE, default |-> 10000] }

-----------------------------------------------------------------------------
(* State machine *)

Attached == clListeners > 0
World == [mk |-> markers, mm |-> mapMarkers, cur |-> clCurrent, ib |-> infobox]
Created == {m \in DOMAIN markers : markers[m].created}

\* the Marker objects, the two lists and the infoboxes as a call leaves them
CommitWorld(w) ==
    /\ markers' = w.mk
    /\ mapMarkers' = w.mm
    /\ clCurrent' = w.cur
    /\ infobox' = w.ib

\* a call of the cluster or of a marker leaves the GoogleMap's view alone
Commit(w) == CommitWorld(w) /\ UNCHANGED viewVars

\* new GoogleMap( element, $scope, $compile ): the view of a map just built
\* with the default options
DefaultCenter == [lat |-> 39, lng |-> -119]
NoMapCall ==
    [op |-> "none", arg |-> <<>>, threw |-> FALSE, returned |-> FALSE, fitted |-> FALSE,
     closed |-> {}]
\* no function has been wrapped by debounce
NoDebounce == [wait |-> 0]
\* no googleMap directive is in the page
NoMount == [mounted |-> FALSE]
\* no beforeCreate callback is registered and no aggregate is looked at
NoHook == [registered |-> FALSE]
NewView ==
    /\ db = NoDebounce
    /\ mount = NoMount
    /\ hook = NoHook
    /\ gmState = [fittingBounds |-> FALSE, compile |-> TRUE]
    /\ gmOwn = "undefined"
    /\ widget = [center |-> DefaultCenter, boundsDue |-> FALSE]
    /\ gmPending = 0
    /\ mapCall = NoMapCall

\* the calls the properties tell apart from the others
Recorded == {"clearMarkers", "clusterMarkers", "hideShow", "zoomTimer", "resetCluster"}

\* the latest call: which one, whether a clustering pass ran in it (the
\* cluster had its map) and whether it ended with an exception
Did(op, threw, ran) ==
    last' = [op |-> IF op \in Recorded THEN op ELSE "other",
             ran |-> ran, threw |-> threw]

NoCall == [kind |-> "none", list |-> <<>>, distance |-> 0, result |-> Nothing]

\* the caller has constructed the markers of ClusterPoints without a map, a GoogleMap
\* at the default zoom and a Cluster without markers and without a map
Init ==
    /\ markers = [m \in Ids |-> IF m \in UserIds
                                THEN NewMarkerState(PoolPos(m).lat, PoolPos(m).lng)
                                ELSE ProtoState]
    /\ mapMarkers = <<>>
    /\ zoom = 8
    /\ clListeners = 0
    /\ clMarkers = <<>>
    /\ clCurrent = <<>>
    /\ clPending = 0
    /\ clusterMapping = DefaultMapping
    /\ passes = 0
    /\ last = [op |-> "other", ran |-> FALSE, threw |-> FALSE]
    /\ groupCall = NoCall
    /\ infobox = [m \in DOMAIN markers |-> "none"]
    /\ anchorListener = FALSE
    /\ NewView

\* the state a call leaves that ended with clusterMarkers, r its outcome
PassDone(op, r) ==
    /\ passes' = IF r.ran THEN passes + 1 ELSE passes
    /\ Commit(r.w)
    /\ Did(op, r.threw, r.ran)

\* a call of clusterMarkers inside a public call; at most MaxPasses passes run
Pass(op, attached, master) ==
    /\ attached => passes < MaxPasses
    /\ PassDone(op, clusterMarkers(World, attached, master, clusterMapping, zoom))

NoPass(op) == Commit(World) /\ Did(op, FALSE, FALSE) /\ UNCHANGED passes

\* Cluster.setMap( map )
SetMap(hasMap) ==
    /\ IF hasMap
       THEN /\ clListeners < MaxListeners
            /\ clListeners' = clListeners + 1
            /\ IF Len(clMarkers) > 0
               THEN Pass("setMap", TRUE, clMarkers)
               ELSE NoPass("setMap")
       ELSE /\ NoPass("setMap")
            /\ UNCHANGED clListeners
    /\ UNCHANGED <<zoom, clMarkers, clPending, clusterMapping, groupCall>>

\* Cluster.addMarkers( markers )
AddMarkers(arg) ==
    /\ Len(pushMarkers(clMarkers, arg)) <= MaxMaster
    /\ \A i \in 1..Len(arg.items), j \in 1..Len(clMarkers) : clMarkers[j] < arg.items[i]
    /\ clMarkers' = pushMarkers(clMarkers, arg)
    /\ Pass("addMarkers", Attached, pushMarkers(clMarkers, arg))
    /\ UNCHANGED <<zoom, clListeners, clPending, clusterMapping, groupCall>>

\* Cluster.removeMarkers( markers )
RemoveMarkers(ms) ==
    /\ IF Attached /\ Len(clMarkers) > 0
       THEN /\ clMarkers' = removeAll(clMarkers, ms)
            /\ Pass("removeMarkers", Attached, removeAll(clMarkers, ms))
       ELSE /\ NoPass("removeMarkers")
            /\ UNCHANGED clMarkers
    /\ UNCHANGED <<zoom, clListeners, clPending, clusterMapping, groupCall>>

\* clearMarkers that empties the master list as well, as resetCluster does
ClearMarkersCallEmptyingMaster ==
    /\ clMarkers' = <<>>
    /\ LET r == ClearMarkers(World, Attached)
       IN Commit(r.w) /\ Did("clearMarkers", r.threw, FALSE) /\ UNCHANGED passes
    /\ UNCHANGED <<zoom, clListeners, clPending, clusterMapping, groupCall>>

\* Cluster.clearMarkers()
ClearMarkersCall ==
    /\ LET r == ClearMarkers(World, Attached)
       IN Commit(r.w) /\ Did("clearMarkers", r.threw, FALSE) /\ UNCHANGED passes
    /\ UNCHANGED <<zoom, clListeners, clMarkers, clPending, clusterMapping, groupCall>>

\* Cluster.clusterMarkers()
ClusterMarkersCall ==
    /\ Pass("clusterMarkers", Attached, clMarkers)
    /\ UNCHANGED <<zoom, clListeners, clMarkers, clPending, clusterMapping, groupCall>>

\* Cluster.setClusterZoomMapping( mapping )
SetClusterZoomMapping(arg) ==
    /\ clusterMapping' = setClusterZoomMapping(clusterMapping, arg)
    /\ NoPass("setClusterZoomMapping")
    /\ UNCHANGED <<zoom, clListeners, clMarkers, clPending, groupCall>>

\* the map's zoom level changes: zoom_changed reaches every debounced
\* listener the cluster registered, which (re)starts its timer
ZoomChanged(z) ==
    /\ z # zoom
    /\ zoom' = z
    /\ clPending' = clListeners
    /\ NoPass("zoom_changed")
    /\ UNCHANGED <<clListeners, clMarkers, clusterMapping, groupCall>>

\* a timer callback whose listener runs no pass
TimerFireWithoutPass ==
    /\ clPending > 0
    /\ clPending' = clPending - 1
    /\ NoPass("zoomTimer")
    /\ UNCHANGED <<zoom, clListeners, clMarkers, clusterMapping, groupCall>>

\* the timer of one debounced listener expires: the listener of setMap runs
TimerFire ==
    /\ clPending > 0
    /\ clPending' = clPending - 1
    /\ IF Len(clMarkers) > 0
       THEN Pass("zoomTimer", Attached, clMarkers)
       ELSE NoPass("zoomTimer")
    /\ UNCHANGED <<zoom, clListeners, clMarkers, clusterMapping, groupCall>>

MarkerCall(op, r) ==
    /\ Commit(r.w) /\ Did(op, r.threw, FALSE)
    /\ UNCHANGED <<passes, zoom, clListeners, clMarkers, clPending, clusterMapping, groupCall>>

\* marker.hide()
Hide(m) == m \in Created /\ MarkerCall("hide", MarkerHide(World, m))

\* marker.show()
Show(m) == m \in Created /\ MarkerCall("show", MarkerShow(World, m))

\* marker.hide(); marker.show();
HideShow(m) ==
    /\ m \in Created
    /\ LET h == MarkerHide(World, m)
       IN MarkerCall("hideShow", IF h.threw THEN h ELSE MarkerShow(h.w, m))

Next ==
    \/ \E hasMap \in BOOLEAN : SetMap(hasMap)
    \/ \E arg \in AddArgs : AddMarkers(arg)
    \/ \E ms \in RemoveArgs : RemoveMarkers(ms)
    \/ ClearMarkersCall
    \/ ClusterMarkersCall
    \/ \E arg \in MappingArgs : SetClusterZoomMapping(arg)
    \/ \E z \in ZoomLevels : ZoomChanged(z)
    \/ TimerFire
    \/ \E m \in UserIds : Hide(m)
    \/ \E m \in UserIds : Show(m)
    \/ \E m \in UserIds : HideShow(m)

Spec == Init /\ [][Next]_vars

-----------------------------------------------------------------------------
(* Direct calls of Cluster.group.  The caller has constructed the markers   *)
(* of the whole pool, hidden at most one of them and pushed a list of them  *)
(* onto the master list; the cluster has its map or not, and nothing is     *)
(* displayed.                                                               *)

HiddenSets == {{}} \cup {{m} : m \in {g \in GroupIds : PoolPos(g).lat # 0 /\ PoolPos(g).lng # 0}}

InitGroup ==
    /\ \E hidden \in HiddenSets :
         markers = [m \in GroupIds |->
                      [NewMarkerState(PoolPos(m).lat, PoolPos(m).lng)
                         EXCEPT !.visible = (m \notin hidden)]]
    /\ clMarkers \in SeqsUpTo(GroupIds, MaxLen)
    /\ clListeners \in {0, 1}
    /\ zoom \in ZoomLevels
    /\ mapMarkers = <<>>
    /\ clCurrent = <<>>
    /\ clPending = 0
    /\ clusterMapping = DefaultMapping
    /\ passes = 0
    /\ last = [op |-> "other", ran |-> FALSE, threw |-> FALSE]
    /\ groupCall = NoCall
    /\ infobox = [m \in DOMAIN markers |-> "none"]
    /\ anchorListener = FALSE
    /\ NewView

GroupFrame ==
    UNCHANGED <<markers, mapMarkers, zoom, clListeners, clMarkers, clCurrent,
                clPending, clusterMapping, passes, last, infobox, viewVars>>

\* cluster.group( list, d ) with the master list, or its visible markers, as
\* the list
GroupExplicit(visibleOnly, d) ==
    /\ LET list == IF visibleOnly THEN VisibleMarkers(markers, clMarkers) ELSE clMarkers
       IN groupCall' =
            [kind |-> "explicit", list |-> list, distance |-> d,
             result |-> group(markers, Attached, clMarkers, clusterMapping, zoom,
                              TRUE, list, TRUE, d)]
    /\ GroupFrame

\* cluster.group() without arguments
GroupDefault ==
    /\ groupCall' =
         [kind |-> "default", list |-> clMarkers,
          distance |-> IF Attached THEN getGroupingDistance(clusterMapping, zoom) ELSE 0,
          result |-> group(markers, Attached, clMarkers, clusterMapping, zoom,
                           FALSE, <<>>, FALSE, 0)]
    /\ GroupFrame

\* the call this.group( visibleMarkers ) that clusterMarkers makes
GroupInPass ==
    /\ Attached
    /\ Len(VisibleMarkers(markers, clMarkers)) > 0
    /\ groupCall' =
         [kind |-> "pass", list |-> VisibleMarkers(markers, clMarkers),
          distance |-> getGroupingDistance(clusterMapping, zoom),
          result |-> PassGroups(markers, clMarkers, clusterMapping, zoom)]
    /\ GroupFrame

NextGroup ==
    \/ \E visibleOnly \in BOOLEAN, d \in Distances : GroupExplicit(visibleOnly, d)
    \/ GroupDefault
    \/ GroupInPass

SpecGroup == InitGroup /\ [][NextGroup]_vars

\* the distance a call of group worked with
EffectiveDistance ==
    IF groupCall.kind = "explicit" /\ groupCall.distance # 0
    THEN groupCall.distance
    ELSE getGroupingDistance(clusterMapping, zoom)

ResultGroups == groupCall.result.groups
WellFormed(list) == \A i \in 1..Len(list) : markers[list[i]].widget
AllVisible(list) == \A i \in 1..Len(list) : markers[list[i]].visible

-----------------------------------------------------------------------------
C2_MembersNearSeed ==
    groupCall.result.ok =>
      \A g \in 1..Len(ResultGroups) :
        \A i \in 1..Len(ResultGroups[g].markers) :
          computeDistanceBetween(getPosition(markers, ResultGroups[g].markers[1]),
                                 getPosition(markers, ResultGroups[g].markers[i]))
            <= EffectiveDistance

\* a group of three whose two other members are further apart than the
\* distance: they are connected only through the first member
C2_Witness ==
    /\ groupCall.result.ok
    /\ \E g \in 1..Len(ResultGroups) :
         /\ Len(ResultGroups[g].markers) = 3
         /\ computeDistanceBetween(getPosition(markers, ResultGroups[g].markers[2]),
                                   getPosition(markers, ResultGroups[g].markers[3]))
              > EffectiveDistance

-----------------------------------------------------------------------------
(* Properties of the cluster on a map *)

\* the positions of the display markers, in the order of currentMarkers; an
\* object whose constructor failed has none
DisplayPositions(mk, cur) ==
    [i \in 1..Len(cur) |->
       [has |-> mk[cur[i]].widget, lat |-> mk[cur[i]].lat, lng |-> mk[cur[i]].lng]]

\* the display markers that stand for the marker m
Representing(m) ==
    {i \in 1..Len(clCurrent) :
       \/ clCurrent[i] = m
       \/ clCurrent[i] \in AggIds /\ m \in Range(markers[clCurrent[i]].members)}

\* the latest call ran a clustering pass to its end
PassCompleted == last.ran /\ ~last.threw

(* C4: after a completed clusterMarkers pass of a cluster that has its map  *)
(* and a non-zero grouping distance, every visible marker of the master     *)
(* list is represented exactly once in the display markers: it is itself a  *)
(* display marker or it is a member of exactly one aggregate, never both    *)
(* and never neither.                                                       *)
C4_VisibleRepresentedOnce ==
    (PassCompleted /\ Attached /\ getGroupingDistance(clusterMapping, zoom) # 0)
    => \A i \in 1..Len(clMarkers) :
         (clMarkers[i] # EmptyArray /\ isVisible(markers, clMarkers[i]))
         => Cardinality(Representing(clMarkers[i])) = 1

\* a completed pass over three visible markers that left an aggregate of two
\* and the third marker itself
C4_Witness ==
    /\ PassCompleted /\ Attached
    /\ Len(clMarkers) = 3
    /\ \A i \in 1..Len(clMarkers) : isVisible(markers, clMarkers[i])
    /\ Len(clCurrent) = 2
    /\ \E i, j \in 1..2 :
         /\ clCurrent[i] \in AggIds /\ Len(markers[clCurrent[i]].members) = 2
         /\ clCurrent[j] \in UserIds

(* C5 as specified: a clusterMarkers pass puts exactly one display marker per *)
(* group into the display markers: for a group of more than one a new       *)
(* aggregate Marker at the mean of the members' positions, for a group of   *)
(* one the marker itself.                                                   *)
C5_OneDisplayMarkerPerGroup ==
    ( /\ last.ran /\ Attached
      /\ EmptyArray \notin Range(clMarkers)
      /\ Len(VisibleMarkers(markers, clMarkers)) > 0
      /\ PassGroups(markers, clMarkers, clusterMapping, zoom).ok )
    => LET groups == PassGroups(markers, clMarkers, clusterMapping, zoom).groups
       IN /\ ~last.threw
          /\ Len(clCurrent) = Len(groups)
          /\ \A g \in 1..Len(groups) :
               IF Len(groups[g].markers) > 1
               THEN /\ clCurrent[g] \in AggIds
                    /\ markers[clCurrent[g]].widget
                    /\ getPosition(markers, clCurrent[g]) = groups[g].centroid
               ELSE clCurrent[g] = groups[g].markers[1]

(* C6 as specified: whatever passes have run, the markers the map tracks hold *)
(* no aggregate of an earlier pass: every tracked aggregate is one of the   *)
(* current display markers.                                                 *)
C6_NoStaleAggregateTracked ==
    \A i \in 1..Len(mapMarkers) :
      mapMarkers[i] \in AggIds => mapMarkers[i] \in Range(clCurrent)

(* C7: Cluster.clearMarkers and Cluster.clusterMarkers leave the master     *)
(* list as it is: the same members in the same order.                       *)
C7_MasterListKept ==
    [][(ClearMarkersCall \/ ClusterMarkersCall) => clMarkers' = clMarkers]_vars

\* clearMarkers has emptied the display of an attached cluster whose master
\* list holds three markers
C7_Witness ==
    /\ last.op = "clearMarkers"
    /\ Attached
    /\ Len(clMarkers) = 3
    /\ clCurrent = <<>>
    /\ \E m \in AggIds : markers[m].created

(* C8: clusterMarkers called on a cluster that has its map, right after a   *)
(* clustering pass (nothing changed the master list, a visibility or the    *)
(* zoom in between), leaves as many display markers at the same positions   *)
(* as that pass left.                                                       *)
C8_SecondPassSameDisplay ==
    [][(ClusterMarkersCall /\ last.ran /\ Attached)
         => DisplayPositions(markers', clCurrent')
              = DisplayPositions(markers, clCurrent)]_vars

\* clusterMarkers has completed the second pass: the aggregate of the pass
\* before is off the display, the new one stands at the same place
C8_Witness ==
    /\ last.op = "clusterMarkers" /\ PassCompleted
    /\ passes = 2
    /\ Len(clCurrent) = 2
    /\ \E old \in AggIds \ Range(clCurrent), new \in AggIds \cap Range(clCurrent) :
         /\ markers[old].created
         /\ markers[old].members = markers[new].members
         /\ getPosition(markers, old) = getPosition(markers, new)

\* the argument [] of addMarkers
EmptyArg == [isArray |-> TRUE, items |-> <<>>]

(* C9 as specified: addMarkers([]) and removeMarkers([]) leave the display    *)
(* markers as they are: as many, at the same positions.                     *)
C9_EmptyListKeepsDisplay ==
    [][(AddMarkers(EmptyArg) \/ RemoveMarkers(<<>>))
         => DisplayPositions(markers', clCurrent')
              = DisplayPositions(markers, clCurrent)]_vars

\* after hide() and show() the marker is visible, has the map it had and, if
\* it has one, its widget is on the map
Restored(m) ==
    /\ markers'[m].visible
    /\ markers'[m].map = markers[m].map
    /\ markers[m].map => markers'[m].wmap

(* C10 as specified: for any marker, hide() followed by show() restores the   *)
(* widget's place on the map and visible = true and leaves the marker's map *)
(* as it was.                                                               *)
C10_HideShowRestoresAny ==
    [][\A m \in UserIds : HideShow(m) => Restored(m)]_vars

(* C10 amended: for a marker that has a map when hide() is called, hide()   *)
(* followed by show() puts the widget on the map, sets visible = true and   *)
(* leaves the marker's map as it was.                                       *)
C10_HideShowRestoresAttached ==
    [][\A m \in UserIds : (HideShow(m) /\ markers[m].map) => Restored(m)]_vars

\* hide() and show() have run on a marker that is a display marker of the
\* cluster: no marker is left hidden, so the one they ran on had its map
C10_Witness ==
    /\ last.op = "hideShow" /\ ~last.threw
    /\ \A m \in UserIds : markers[m].visible
    /\ \E m \in UserIds : markers[m].map /\ markers[m].wmap /\ m \in Range(clCurrent)

-----------------------------------------------------------------------------
(* The GoogleMap with its markers and their infoboxes.  No Marker exists at  *)
(* the start; the InfoBox library is one of the two kinds, and the map was   *)
(* built with or without the $compile service.                               *)

\* the markers that get infoboxes: 1 and 2 of the pool
MapIds == {1, 2}

\* arguments of GoogleMap.zoom
ZoomArgs == {0, 15, 22, 25}

\* arguments of GoogleMap.center: a coordinate that is missing, 0 or another number
Coordinates ==
    { [given |-> FALSE, value |-> 0], [given |-> TRUE, value |-> 0],
      [given |-> TRUE, value |-> 1200] }

\* arrays of markers handed to GoogleMap.addMarkers and GoogleMap.fitBounds
MarkerLists == SeqsUpTo(UserIds, 2)

InitMap ==
    /\ markers = [m \in Ids |-> ProtoState]
    /\ mapMarkers = <<>>
    /\ zoom = 8
    /\ clListeners = 0
    /\ clMarkers = <<>>
    /\ clCurrent = <<>>
    /\ clPending = 0
    /\ clusterMapping = DefaultMapping
    /\ passes = 0
    /\ last = [op |-> "other", ran |-> FALSE, threw |-> FALSE]
    /\ groupCall = NoCall
    /\ infobox = [m \in Ids |-> "none"]
    /\ anchorListener \in BOOLEAN
    /\ NewView

\* what the cluster holds besides its display markers, and the library
ClusterFrame ==
    UNCHANGED <<clListeners, clMarkers, clusterMapping, passes, last, groupCall,
                anchorListener, db, mount, hook>>

\* the latest call: its arguments, whether it threw, what it returned,
\* whether it called fitBounds of the google.maps.Map and the markers whose
\* open infobox it closed, given the infoboxes ib it leaves
Called(op, arg, r, fitted, ib) ==
    mapCall' = [op |-> op, arg |-> arg, threw |-> r.threw, returned |-> r.returned,
                fitted |-> fitted,
                closed |-> {m \in DOMAIN infobox : infobox[m] = "open" /\ ib[m] # "open"}]

\* a call that works on the markers and leaves the view alone
MarkersCall(op, arg, r) ==
    /\ CommitWorld(r.w)
    /\ Called(op, arg, r, FALSE, r.w.ib)
    /\ ClusterFrame
    /\ UNCHANGED <<zoom, clPending, gmState, gmOwn, widget, gmPending>>

\* a call that works on the view and leaves the markers alone
ViewCall(op, arg, threw, fitted) ==
    /\ Called(op, arg, [threw |-> threw, returned |-> FALSE], fitted, infobox)
    /\ ClusterFrame
    /\ UNCHANGED <<markers, mapMarkers, clCurrent, infobox>>

\* the google.maps.Map takes the zoom level z: zoom_changed reaches the
\* debounced listeners of the GoogleMap and of the cluster
ZoomTo(z) ==
    /\ zoom' = z
    /\ IF z # zoom
       THEN gmPending' = 1 /\ clPending' = clListeners
       ELSE UNCHANGED <<gmPending, clPending>>

\* the positions the caller may pass for marker m: its position of the pool,
\* or that position with the latitude or the longitude missing (0 stands for
\* a missing coordinate as well: both are falsy)
MarkerPositions(m) ==
    { PoolPos(m), [lat |-> 0, lng |-> PoolPos(m).lng], [lat |-> PoolPos(m).lat, lng |-> 0] }

\* new Marker( lat, lng ) and new Marker( lat, lng, map ); the caller keeps
\* what the new expression yields
NewMarker(m, pos, attach) ==
    /\ ~markers[m].created
    /\ MarkersCall("newMarker", <<m>>,
         Returned(IF attach
                  THEN NewMarkerOnMap(World, m, pos.lat, pos.lng)
                  ELSE Ok([World EXCEPT !.mk[m] = NewMarkerState(pos.lat, pos.lng)]),
                  FALSE))

\* GoogleMap.addMarkers( markers ) with an array or with one Marker
MapAddMarkersCall(ms) ==
    /\ Range(ms) \subseteq Created
    /\ MarkersCall("addMarkers", ms, Returned(MapAddMarkers(World, ms), FALSE))

\* marker.addToMap( map )
AddToMap(m) ==
    /\ m \in Created
    /\ MarkersCall("addToMap", <<m>>, Returned(MarkerAddToMap(World, m), FALSE))

\* GoogleMap.removeMarker( marker )
MapRemoveMarkerCall(m) ==
    /\ m \in Created
    /\ MarkersCall("removeMarker", <<m>>, MapRemoveMarker(World, m))

\* GoogleMap.clearMarkers(); recorded with the markers the map tracked
MapClearMarkersCall ==
    MarkersCall("clearMarkers", mapMarkers, Returned(MapClearMarkers(World), FALSE))

\* marker.remove()
Remove(m) ==
    /\ m \in Created
    /\ MarkersCall("remove", <<m>>, Returned(MarkerRemove(World, m), FALSE))

\* marker.hide()
HideCall(m) ==
    /\ m \in Created
    /\ MarkersCall("hide", <<m>>, Returned(MarkerHide(World, m), FALSE))

\* marker.show()
ShowCall(m) ==
    /\ m \in Created
    /\ MarkersCall("show", <<m>>, Returned(MarkerShow(World, m), FALSE))

\* marker.addInfobox( content ), once for a marker
AddInfobox(m, hasContent) ==
    /\ m \in Created
    /\ infobox[m] = "none"
    /\ MarkersCall("addInfobox", <<m>>, Returned(addInfobox(World, m, hasContent), FALSE))

\* the pointer enters (or clicks) a marker that is on the map and has an
\* infobox: the listener of addInfobox runs
MouseOver(m) ==
    /\ markers[m].wmap
    /\ infobox[m] # "none"
    /\ MarkersCall("mouseover", <<m>>, Returned(OpenOnEvent(World, m), FALSE))

\* marker.openInfobox()
OpenInfobox(m) ==
    /\ m \in Created
    /\ MarkersCall("openInfobox", <<m>>, Returned(openInfobox(World, m), FALSE))

\* marker.closeInfobox()
CloseInfobox(m) ==
    /\ m \in Created
    /\ MarkersCall("closeInfobox", <<m>>,
                   Return([World EXCEPT !.ib = closeInfobox(infobox, m)], FALSE))

\* GoogleMap.fitBounds( markers ) and GoogleMap.fitBounds(): with a visible
\* marker the flag is set and the google.maps.Map fits the bounds, which
\* may change its zoom level and is followed by bounds_changed
FitBounds(hasList, list, z) ==
    /\ Range(list) \subseteq Created
    /\ IF FitsBounds(hasList, list)
       THEN /\ gmState' = [gmState EXCEPT !.fittingBounds = TRUE]
            /\ widget' = [widget EXCEPT !.boundsDue = TRUE]
            /\ ZoomTo(z)
       ELSE /\ z = zoom
            /\ UNCHANGED <<gmState, widget, zoom, gmPending, clPending>>
    /\ ViewCall("fitBounds", FitList(hasList, list), FALSE, FitsBounds(hasList, list))
    /\ UNCHANGED gmOwn

\* bounds_changed of the google.maps.Map: the listener of bindInternalEvents
BoundsChanged ==
    /\ widget.boundsDue
    /\ widget' = [widget EXCEPT !.boundsDue = FALSE]
    /\ gmOwn' = "false"
    /\ ViewCall("bounds_changed", <<>>, FALSE, FALSE)
    /\ UNCHANGED <<gmState, zoom, gmPending, clPending>>

\* GoogleMap.zoom( level )
MapZoom(level) ==
    /\ IF ZoomAccepted(level)
       THEN ZoomTo(level)
       ELSE UNCHANGED <<zoom, gmPending, clPending>>
    /\ ViewCall("zoom", <<level>>, ~ZoomAccepted(level), FALSE)
    /\ UNCHANGED <<gmState, gmOwn, widget>>

\* the user zooms the map
UserZoom(z) ==
    /\ z # zoom
    /\ ZoomTo(z)
    /\ ViewCall("userZoom", <<z>>, FALSE, FALSE)
    /\ UNCHANGED <<gmState, gmOwn, widget>>

\* the timer of the GoogleMap's debounced zoom_changed listener expires
GmTimerFire ==
    /\ gmPending = 1
    /\ gmPending' = 0
    /\ CommitWorld(IF NotFittingBounds THEN closeInfoboxes(World) ELSE World)
    /\ Called("zoomTimer", <<>>, [threw |-> FALSE, returned |-> FALSE], FALSE, infobox')
    /\ ClusterFrame
    /\ UNCHANGED <<zoom, clPending, gmState, gmOwn, widget>>

\* GoogleMap.center( lat, lng )
MapCenter(lat, lng) ==
    /\ IF CenterAccepted(lat, lng)
       THEN widget' = [center |-> [lat |-> lat.value, lng |-> lng.value],
                       boundsDue |-> TRUE]
       ELSE UNCHANGED widget
    /\ ViewCall("center", <<>>, ~CenterAccepted(lat, lng), FALSE)
    /\ UNCHANGED <<gmState, gmOwn, zoom, gmPending, clPending>>

\* GoogleMap.compile( content )
MapCompile(hasContent) ==
    /\ ViewCall("compile", <<>>, ~CanCompile(hasContent), FALSE)
    /\ UNCHANGED <<gmState, gmOwn, widget, zoom, gmPending, clPending>>

NextMap ==
    \/ \E m \in UserIds, attach \in BOOLEAN :
         \E pos \in MarkerPositions(m) : NewMarker(m, pos, attach)
    \/ \E ms \in MarkerLists : MapAddMarkersCall(ms)
    \/ \E m \in UserIds : AddToMap(m)
    \/ \E m \in UserIds : MapRemoveMarkerCall(m)
    \/ MapClearMarkersCall
    \/ \E m \in UserIds : Remove(m)
    \/ \E m \in UserIds : HideCall(m)
    \/ \E m \in UserIds : ShowCall(m)

SpecMap == InitMap /\ [][NextMap]_vars

\* the markers are constructed on the map and get infoboxes; the map fits
\* its bounds to them and the user zooms
NextInfobox ==
    \/ \E m \in MapIds : NewMarker(m, PoolPos(m), TRUE)
    \/ \E m \in MapIds : MapRemoveMarkerCall(m)
    \/ MapClearMarkersCall
    \/ \E m \in MapIds : HideCall(m)
    \/ \E m \in MapIds : ShowCall(m)
    \/ \E m \in MapIds, hasContent \in BOOLEAN : AddInfobox(m, hasContent)
    \/ \E m \in MapIds : MouseOver(m)
    \/ \E m \in MapIds : OpenInfobox(m)
    \/ \E m \in MapIds : CloseInfobox(m)
    \/ \E hasList \in BOOLEAN, list \in MarkerLists, z \in ZoomLevels :
         FitBounds(hasList, list, z)
    \/ BoundsChanged
    \/ \E z \in ZoomLevels : UserZoom(z)
    \/ GmTimerFire

SpecInfobox == InitMap /\ [][NextInfobox]_vars

-----------------------------------------------------------------------------
(* The view of the GoogleMap: its zoom level, its center and its compiled    *)
(* content.  The map was built with or without the $compile service.         *)

InitView ==
    /\ markers = [m \in Ids |-> ProtoState]
    /\ mapMarkers = <<>>
    /\ zoom = 8
    /\ clListeners = 0
    /\ clMarkers = <<>>
    /\ clCurrent = <<>>
    /\ clPending = 0
    /\ clusterMapping = DefaultMapping
    /\ passes = 0
    /\ last = [op |-> "other", ran |-> FALSE, threw |-> FALSE]
    /\ groupCall = NoCall
    /\ infobox = [m \in Ids |-> "none"]
    /\ anchorListener \in BOOLEAN
    /\ gmState \in {[fittingBounds |-> FALSE, compile |-> c] : c \in BOOLEAN}
    /\ gmOwn = "undefined"
    /\ widget = [center |-> DefaultCenter, boundsDue |-> FALSE]
    /\ gmPending = 0
    /\ mapCall = NoMapCall
    /\ db = NoDebounce
    /\ mount = NoMount
    /\ hook = NoHook

NextView ==
    \/ \E m \in MapIds : NewMarker(m, PoolPos(m), TRUE)
    \/ \E m \in MapIds, hasContent \in BOOLEAN : AddInfobox(m, hasContent)
    \/ \E m \in MapIds : MouseOver(m)
    \/ \E level \in ZoomArgs : MapZoom(level)
    \/ \E z \in ZoomLevels : UserZoom(z)
    \/ BoundsChanged
    \/ GmTimerFire
    \/ \E lat, lng \in Coordinates : MapCenter(lat, lng)
    \/ \E hasContent \in BOOLEAN : MapCompile(hasContent)

SpecView == InitView /\ [][NextView]_vars

-----------------------------------------------------------------------------
(* Properties of the GoogleMap, its markers and their infoboxes *)

\* C11: GoogleMap.fitBounds, called with a list (or, without one, with the
\* tracked markers) in which no marker is visible, does not call fitBounds of
\* the google.maps.Map and does not set state.fittingBounds: the flag, the
\* widget and the zoom level stay as they were.
C11_NothingVisibleNothingFitted ==
    [][ (/\ mapCall'.op = "fitBounds"
         /\ \A m \in Range(mapCall'.arg) : ~isVisible(markers, m))
        => (/\ ~mapCall'.fitted
            /\ gmState' = gmState
            /\ widget' = widget
            /\ zoom' = zoom) ]_vars

\* fitBounds was called with hidden markers only
C11_Witness ==
    /\ mapCall.op = "fitBounds"
    /\ Len(mapCall.arg) > 0
    /\ \A m \in Range(mapCall.arg) : ~isVisible(markers, m)
    /\ ~mapCall.fitted
    /\ ~gmState.fittingBounds

\* C12: while the flag that fitBounds sets (state.fittingBounds) is set and
\* the bounds_changed of that fitBounds has not arrived yet, the debounced
\* zoom_changed listener closes no infobox.
C12_FittingKeepsInfoboxes ==
    [][ (/\ mapCall'.op = "zoomTimer"
         /\ gmState.fittingBounds
         /\ widget.boundsDue)
        => infobox' = infobox ]_vars

\* C13: the bounds_changed listener clears the flag that fitBounds set:
\* after a bounds_changed event state.fittingBounds is false.
C13_BoundsChangedClearsFlag ==
    mapCall.op = "bounds_changed" => ~gmState.fittingBounds

-----------------------------------------------------------------------------
(* Properties of the view of the GoogleMap *)

\* C14: GoogleMap.zoom( level ) sets the zoom level of the google.maps.Map to
\* level for every level in 0..21, 0 included, and leaves the zoom level as it
\* was for every other level.
C14_ZoomRange ==
    [][ mapCall'.op = "zoom"
        => IF mapCall'.arg[1] \in 0..21
           THEN zoom' = mapCall'.arg[1]
           ELSE zoom' = zoom ]_vars

-----------------------------------------------------------------------------
(* Properties of the infoboxes *)

\* C15: when the mouseover (or click) listener of marker A opens A's infobox
\* while the infobox of another marker B that is on the same map is open, the
\* listener closes B's infobox before it opens A's: after the event A's
\* infobox is open and B's is closed.
C15_TriggerClosesOthers ==
    [][ (mapCall'.op = "mouseover" /\ ~mapCall'.threw)
        => (/\ infobox'[mapCall'.arg[1]] = "open"
            /\ \A b \in MapIds \ {mapCall'.arg[1]} :
                 (markers[b].map /\ infobox[b] = "open") => infobox'[b] = "closed") ]_vars

\* the listener of one marker has closed the infobox of another and opened its own
C15_Witness ==
    /\ mapCall.op = "mouseover"
    /\ ~mapCall.threw
    /\ infobox[mapCall.arg[1]] = "open"
    /\ \E b \in MapIds \ {mapCall.arg[1]} :
         b \in mapCall.closed /\ markers[b].map /\ infobox[b] = "closed"

\* C16: at most one infobox is open on a map at any time.
C16_AtMostOneOpen ==
    Cardinality({m \in MapIds : infobox[m] = "open"}) <= 1

-----------------------------------------------------------------------------
(* Properties of the markers the GoogleMap tracks *)

NoDuplicates(list) ==
    \A i, j \in 1..Len(list) : list[i] = list[j] => i = j

\* C17: the list of markers a GoogleMap tracks never holds a marker twice,
\* GoogleMap.addMarkers adds to it exactly the markers of its argument that it
\* did not hold, and with markers that are all tracked already it leaves the
\* list as it was.
C17_AddMarkersIsUnion ==
    [][ /\ NoDuplicates(mapMarkers')
        /\ (mapCall'.op = "addMarkers" /\ ~mapCall'.threw)
           => (/\ Range(mapMarkers') = Range(mapMarkers) \cup Range(mapCall'.arg)
               /\ SubSeq(mapMarkers', 1, Len(mapMarkers)) = mapMarkers
               /\ Range(mapCall'.arg) \subseteq Range(mapMarkers)
                  => mapMarkers' = mapMarkers) ]_vars

\* addMarkers was called with a marker the map tracked already, next to
\* another tracked marker
C17_Witness ==
    /\ mapCall.op = "addMarkers"
    /\ ~mapCall.threw
    /\ Len(mapCall.arg) = 2
    /\ mapCall.arg[1] = mapCall.arg[2]
    /\ Len(mapMarkers) = 2
    /\ mapMarkers[2] = mapCall.arg[1]
    /\ NoDuplicates(mapMarkers)

\* C18: GoogleMap.removeMarker( m ) for a tracked marker m, at whatever
\* position of the list, takes m off the google.maps.Map, removes exactly m
\* from the list and returns true; for a marker that is not tracked it
\* returns false and leaves the list as it was.
C18_RemoveMarkerAnyPosition ==
    [][ mapCall'.op = "removeMarker"
        => IF mapCall'.arg[1] \in Range(mapMarkers)
           THEN /\ mapCall'.returned
                /\ ~markers'[mapCall'.arg[1]].wmap
                /\ mapMarkers' = SelectSeq(mapMarkers, LAMBDA x : x # mapCall'.arg[1])
           ELSE /\ ~mapCall'.returned
                /\ mapMarkers' = mapMarkers ]_vars

\* C19: after GoogleMap.clearMarkers() the map tracks no marker (hasMarkers
\* is false), and every marker it tracked before the call is off the
\* google.maps.Map and has no map in its state.
C19_ClearMarkersClearsAll ==
    [][ mapCall'.op = "clearMarkers"
        => (/\ ~mapCall'.threw
            /\ ~hasMarkers(mapMarkers')
            /\ \A m \in Range(mapMarkers) :
                 ~markers'[m].wmap /\ ~markers'[m].map) ]_vars

\* clearMarkers was called on a map that tracked two markers, one of them shown
C19_Witness ==
    /\ mapCall.op = "clearMarkers"
    /\ Len(mapCall.arg) = 2
    /\ mapMarkers = <<>>
    /\ \A m \in Range(mapCall.arg) : ~markers[m].wmap /\ ~markers[m].map
    /\ \E m \in Range(mapCall.arg) : markers[m].visible

-----------------------------------------------------------------------------
(* Properties of calls with bad arguments *)

\* C20: GoogleMap.center with a missing coordinate, GoogleMap.zoom with an
\* invalid level and GoogleMap.compile without content or without $compile
\* throw nothing: they log, return and leave the google.maps.Map as it was.
C20_BadInputReturns ==
    [][ mapCall'.op \in {"center", "zoom", "compile"}
        => (/\ ~mapCall'.threw
            /\ (mapCall'.op = "zoom" /\ mapCall'.arg[1] \notin 0..21)
               => (zoom' = zoom /\ widget' = widget)) ]_vars

-----------------------------------------------------------------------------
(* Properties of the construction of markers and maps *)

\* C21: the caller never holds a partially built Marker: what new Marker
\* yields is either nothing or an object with a google.maps marker and a
\* state of its own.
C21_NoPartialMarker ==
    \A m \in UserIds : markers[m].created => markers[m].widget

-----------------------------------------------------------------------------
(* debounce( func, wait, immediate ): the wrapper it returns, its timer and  *)
(* a clock.  A timer set with setTimeout runs in the instant it is due,      *)
(* before any call of the wrapper made in that instant.                      *)

\* the periods the function is debounced with
Waits == {2, 3}

\* the arguments the wrapper is called with
CallArgs == {1, 2}

\* debounce( func, wait, immediate ): the closure just created.  args is 0
\* for null and undefined; calls and log are the history: the calls of the
\* wrapper and the invocations of func
NewDebounce(wait, immediate) ==
    [wait |-> wait, immediate |-> immediate, timeout |-> FALSE, due |-> 0,
     args |-> 0, timestamp |-> 0, now |-> 0, calls |-> <<>>, log |-> <<>>]

\* func.apply( context, args ) at the present instant
Invoked(d, sync) == Append(d.log, [at |-> d.now, arg |-> d.args, sync |-> sync])

\* the wrapper that debounce returns, called with the argument a
debounced(d, a) ==
    LET callNow == d.immediate /\ ~d.timeout
        d1 == [d EXCEPT !.args = a, !.timestamp = d.now,
                        !.calls = Append(d.calls, [at |-> d.now, arg |-> a])]
        d2 == IF ~d.timeout
              THEN [d1 EXCEPT !.timeout = TRUE, !.due = d.now + d.wait]
              ELSE d1
    IN IF callNow THEN [d2 EXCEPT !.log = Invoked(d2, TRUE), !.args = 0] ELSE d2

\* a timer function that invokes func whether or not the immediate flag is set
laterAlsoImmediate(d) ==
    LET sinceCall == d.now - d.timestamp
    IN IF sinceCall < d.wait
       THEN [d EXCEPT !.timeout = TRUE, !.due = d.now + (d.wait - sinceCall)]
       ELSE [d EXCEPT !.timeout = FALSE, !.log = Invoked(d, FALSE), !.args = 0]

\* a timer function that invokes func without looking at the time of the last call
laterWithoutTimestamp(d) ==
    IF ~d.immediate
    THEN [d EXCEPT !.timeout = FALSE, !.log = Invoked(d, FALSE), !.args = 0]
    ELSE [d EXCEPT !.timeout = FALSE]

\* later, the function the timer runs
later(d) ==
    LET sinceCall == d.now - d.timestamp
    IN IF sinceCall < d.wait
       THEN [d EXCEPT !.timeout = TRUE, !.due = d.now + (d.wait - sinceCall)]
       ELSE IF ~d.immediate
            THEN [d EXCEPT !.timeout = FALSE, !.log = Invoked(d, FALSE), !.args = 0]
            ELSE [d EXCEPT !.timeout = FALSE]

\* the timer of the closure is due
TimerDue == db.timeout /\ db.due <= db.now

idleVars ==
    <<markers, mapMarkers, zoom, clListeners, clMarkers, clCurrent, clPending,
      clusterMapping, passes, last, groupCall, infobox, anchorListener,
      gmState, gmOwn, widget, gmPending, mapCall, mount, hook>>

InitDebounce ==
    /\ markers = [m \in Ids |-> ProtoState]
    /\ mapMarkers = <<>>
    /\ zoom = 8
    /\ clListeners = 0
    /\ clMarkers = <<>>
    /\ clCurrent = <<>>
    /\ clPending = 0
    /\ clusterMapping = DefaultMapping
    /\ passes = 0
    /\ last = [op |-> "other", ran |-> FALSE, threw |-> FALSE]
    /\ groupCall = NoCall
    /\ infobox = [m \in Ids |-> "none"]
    /\ anchorListener = FALSE
    /\ gmState = [fittingBounds |-> FALSE, compile |-> TRUE]
    /\ gmOwn = "undefined"
    /\ widget = [center |-> DefaultCenter, boundsDue |-> FALSE]
    /\ gmPending = 0
    /\ mapCall = NoMapCall
    /\ db \in {NewDebounce(wait, immediate) : wait \in Waits, immediate \in BOOLEAN}
    /\ mount = NoMount
    /\ hook = NoHook

\* the wrapper is called
DebouncedCall(a) ==
    /\ Len(db.calls) < MaxCalls
    /\ ~TimerDue
    /\ db' = debounced(db, a)
    /\ UNCHANGED idleVars

\* the timer runs later
TimerRuns ==
    /\ TimerDue
    /\ db' = later(db)
    /\ UNCHANGED idleVars

\* the clock goes on to the next instant
Tick ==
    /\ db.now < MaxTime
    /\ ~TimerDue
    /\ db' = [db EXCEPT !.now = db.now + 1]
    /\ UNCHANGED idleVars

NextDebounce ==
    \/ \E a \in CallArgs : DebouncedCall(a)
    \/ TimerRuns
    \/ Tick

SpecDebounce == InitDebounce /\ [][NextDebounce]_vars

-----------------------------------------------------------------------------
(* Properties of debounce *)

RECURSIVE BurstsFrom(_, _, _, _)
\* the calls of the wrapper from the i-th on, split into bursts: a call made
\* less than wait after the one before it goes on with the burst of that call
BurstsFrom(calls, wait, i, acc) ==
    IF i > Len(calls) THEN acc
    ELSE IF acc # <<>> /\ calls[i].at - Last(acc).last.at < wait
         THEN BurstsFrom(calls, wait, i + 1,
                         Append(Front(acc), [Last(acc) EXCEPT !.last = calls[i]]))
         ELSE BurstsFrom(calls, wait, i + 1,
                         Append(acc, [first |-> calls[i], last |-> calls[i]]))

Bursts == BurstsFrom(db.calls, db.wait, 1, <<>>)

IsPrefix(s, t) == Len(s) <= Len(t) /\ SubSeq(t, 1, Len(s)) = s

\* one invocation for every burst, wait after its last call, with the
\* arguments of that call, and not from within the wrapper
TrailingInvocations ==
    [i \in 1..Len(Bursts) |->
        [at |-> Bursts[i].last.at + db.wait, arg |-> Bursts[i].last.arg, sync |-> FALSE]]

ImmediateInvocations ==
    [i \in 1..Len(Bursts) |->
        [at |-> Bursts[i].first.at, arg |-> Bursts[i].first.arg, sync |-> TRUE]]

-----------------------------------------------------------------------------
(* The zoom_changed listener of Cluster.setMap behind its debounce: the      *)
(* cluster, the events of the map and the clock.                             *)

\* the listener of setMap is debounce( function, 150 ): the closure that the
\* first successful setMap creates, with 150 ms as a number of instants
InitZoom ==
    /\ markers = [m \in Ids |-> IF m \in UserIds
                                THEN NewMarkerState(PoolPos(m).lat, PoolPos(m).lng)
                                ELSE ProtoState]
    /\ mapMarkers = <<>>
    /\ zoom = 8
    /\ clListeners = 0
    /\ clMarkers = <<>>
    /\ clCurrent = <<>>
    /\ clPending = 0
    /\ clusterMapping = DefaultMapping
    /\ passes = 0
    /\ last = [op |-> "other", ran |-> FALSE, threw |-> FALSE]
    /\ groupCall = NoCall
    /\ infobox = [m \in DOMAIN markers |-> "none"]
    /\ anchorListener = FALSE
    /\ gmState = [fittingBounds |-> FALSE, compile |-> TRUE]
    /\ gmOwn = "undefined"
    /\ widget = [center |-> DefaultCenter, boundsDue |-> FALSE]
    /\ gmPending = 0
    /\ mapCall = NoMapCall
    /\ db \in {NewDebounce(wait, FALSE) : wait \in Waits}
    /\ mount = NoMount
    /\ hook = NoHook

ZoomFrame ==
    UNCHANGED <<clListeners, clMarkers, clusterMapping, groupCall, anchorListener,
                gmState, gmOwn, widget, gmPending, mapCall, mount, hook>>

\* Cluster.setMap( map ), once with a map
SetMapOnce(hasMap) == (hasMap => clListeners = 0) /\ SetMap(hasMap)

\* zoom_changed of the map: the debounced listener, if setMap has registered
\* it, is called
ZoomEvent(z) ==
    /\ z # zoom
    /\ Len(db.calls) < MaxCalls
    /\ ~TimerDue
    /\ zoom' = z
    /\ db' = IF Attached THEN debounced(db, z) ELSE db
    /\ clPending' = IF Attached THEN 1 ELSE 0
    /\ CommitWorld(World)
    /\ Did("zoom_changed", FALSE, FALSE)
    /\ UNCHANGED passes
    /\ ZoomFrame

\* a listener that clusters whatever the master list holds
ListenerClustersAlways(master) == TRUE

\* the listener of setMap: if ( this.state.markers.length ) this.clusterMarkers()
ListenerClusters(master) == Len(master) > 0

\* what the timer of the debounce does to the cluster, d the closure as later
\* leaves it: when func was invoked, the listener of setMap has run
ListenerRan(d) ==
    IF Len(d.log) > Len(db.log)
    THEN /\ clPending' = 0
         /\ IF ListenerClusters(clMarkers)
            THEN /\ passes < MaxPasses
                 /\ LET r == clusterMarkers(World, Attached, clMarkers, clusterMapping, zoom)
                    IN /\ passes' = IF r.ran THEN passes + 1 ELSE passes
                       /\ CommitWorld(r.w)
                       /\ Did("zoomTimer", r.threw, r.ran)
            ELSE /\ CommitWorld(World)
                 /\ Did("zoomTimer", FALSE, FALSE)
                 /\ UNCHANGED passes
    ELSE /\ CommitWorld(World)
         /\ UNCHANGED <<clPending, passes, last>>

\* the timer of the debounce runs later
ListenerTimer ==
    /\ TimerDue
    /\ db' = later(db)
    /\ ListenerRan(later(db))
    /\ UNCHANGED zoom
    /\ ZoomFrame

\* the clock goes on to the next instant
ZoomTick ==
    /\ db.now < MaxTime
    /\ ~TimerDue
    /\ db' = [db EXCEPT !.now = db.now + 1]
    /\ UNCHANGED <<markers, mapMarkers, zoom, clListeners, clMarkers, clCurrent, clPending,
                   clusterMapping, passes, last, groupCall, infobox, anchorListener,
                   gmState, gmOwn, widget, gmPending, mapCall, mount, hook>>

\* the markers the caller adds to the cluster: 1 and 2 in an array, then 3
ZoomAddArgs ==
    { [isArray |-> TRUE, items |-> <<1, 2>>], [isArray |-> FALSE, items |-> <<3>>] }

NextZoom ==
    \/ \E hasMap \in BOOLEAN : SetMapOnce(hasMap)
    \/ \E arg \in ZoomAddArgs : AddMarkers(arg)
    \/ \E z \in ZoomLevels : ZoomEvent(z)
    \/ ListenerTimer
    \/ ZoomTick

SpecZoom == InitZoom /\ [][NextZoom]_vars

-----------------------------------------------------------------------------
(* Properties of the cluster's zoom_changed listener *)

-----------------------------------------------------------------------------
(* Properties of the cluster without a map *)

\* C25: while the cluster has no map (no setMap with a map yet) no clustering
\* pass has run, currentMarkers is empty, no listener is registered or
\* pending, and the call before (setMap without a map, clusterMarkers, any
\* other) ran no pass; clusterMarkers on such a cluster returns without an
\* exception.
C25_UnattachedDoesNothing ==
    ~Attached =>
        /\ passes = 0
        /\ clCurrent = <<>>
        /\ clListeners = 0
        /\ clPending = 0
        /\ ~last.ran
        /\ last.op = "clusterMarkers" => ~last.threw

\* clusterMarkers was called on a cluster that holds markers and has no map,
\* after the zoom level of the map changed
C25_Witness ==
    /\ ~Attached
    /\ last.op = "clusterMarkers"
    /\ Len(clMarkers) > 1
    /\ zoom # 8
    /\ passes = 0
    /\ clCurrent = <<>>

-----------------------------------------------------------------------------
(* The grouping distance: a cluster with a list of markers, on a map or not, *)
(* whose mapping the caller changes and whose group is called.               *)

\* zoom levels of the map: two with an entry in the shipped mapping, one without
DistanceZooms == {8, 15, 20}

\* arguments of setClusterZoomMapping: an entry of 0 for level 15, alone,
\* with a default of 0 and with another default, and the shipped values
DistanceArgs ==
    { [level |-> (15 :> 0), hasDefault |-> FALSE, default |-> 0],
      [level |-> (15 :> 0), hasDefault |-> TRUE, default |-> 0],
      [level |-> (20 :> 800), hasDefault |-> TRUE, default |-> 6000],
      [level |-> (15 :> 800), hasDefault |-> TRUE, default |-> 10000] }

InitDistance ==
    /\ markers = [m \in GroupIds |-> NewMarkerState(PoolPos(m).lat, PoolPos(m).lng)]
    /\ clMarkers \in SeqsUpTo(UserIds, 2)
    /\ clListeners \in {0, 1}
    /\ zoom \in DistanceZooms
    /\ mapMarkers = <<>>
    /\ clCurrent = <<>>
    /\ clPending = 0
    /\ clusterMapping = DefaultMapping
    /\ passes = 0
    /\ last = [op |-> "other", ran |-> FALSE, threw |-> FALSE]
    /\ groupCall = NoCall
    /\ infobox = [m \in GroupIds |-> "none"]
    /\ anchorListener = FALSE
    /\ NewView

\* cluster.setClusterZoomMapping( mapping )
DistanceMapping(arg) ==
    /\ clusterMapping' = setClusterZoomMapping(clusterMapping, arg)
    /\ groupCall' = NoCall
    /\ UNCHANGED <<markers, mapMarkers, zoom, clListeners, clMarkers, clCurrent,
                   clPending, passes, last, infobox, viewVars>>

NextDistance ==
    \/ \E arg \in DistanceArgs : DistanceMapping(arg)
    \/ GroupDefault
    \/ GroupInPass

SpecDistance == InitDistance /\ [][NextDistance]_vars

\* the distance the mapping gives for the zoom level of the map: the entry
\* of the level if there is one, whatever its value, else the default
PolicyDistance ==
    IF zoom \in clusterMapping.entries
    THEN clusterMapping.level[zoom]
    ELSE clusterMapping.default

\* C26: a group call that takes its distance from the mapping uses the entry
\* of the current zoom level whenever the mapping has one, whatever its value,
\* and the default otherwise; with a distance of 0 it groups nothing and
\* reports the failure.
C26_DistanceFromPolicy ==
    (groupCall.kind \in {"default", "pass"} /\ Attached)
        => /\ groupCall.distance = PolicyDistance
           /\ groupCall.distance = 0 => groupCall.result = Nothing

\* C27: a call of group with an empty list of markers, or without a distance
\* to group by (none or 0 passed and none from the mapping), throws nothing
\* and yields no groups.
C27_NoGroupsNoException ==
    (/\ groupCall.kind \in {"explicit", "default"}
     /\ \/ Len(groupCall.list) = 0
        \/ /\ groupCall.kind = "default" \/ groupCall.distance = 0
           /\ ~Attached \/ getGroupingDistance(clusterMapping, zoom) = 0)
        => (~groupCall.result.threw /\ groupCall.result.groups = <<>>)

\* ---------------------------------------------------------------------------
\* The GoogleMap constructor and the googleMap directive (GoogleMap.js)
\* ---------------------------------------------------------------------------

\* what the page's scripts have made of the global name `google`: never
\* declared, declared by another library without `google.maps`, or the Maps
\* API itself
Libraries == {"undeclared", "no maps", "loaded"}

\* the broadcasts of 'initializeGoogleMap' one run sends
MaxSignals == 3

\* new GoogleMap(element, $scope, $compile, options): with `google` undeclared
\* the guard itself ends with a ReferenceError; when the guard holds (it does
\* not look at $compile) the state is copied, the widget map is created and
\* $compile is stored as given; otherwise errors.init logs, and `new` yields
\* the fresh object although the constructor returns null: an object without
\* a map whose state is the prototype's
GoogleMapCtor(google, element, scope, compile) ==
    IF google = "undeclared"
    THEN [threw |-> TRUE, object |-> FALSE, ownState |-> FALSE, widgetMap |-> FALSE,
          logged |-> FALSE, compile |-> FALSE]
    ELSE IF google = "loaded" /\ element /\ scope
    THEN [threw |-> FALSE, object |-> TRUE, ownState |-> TRUE, widgetMap |-> TRUE,
          logged |-> FALSE, compile |-> compile]
    ELSE [threw |-> FALSE, object |-> TRUE, ownState |-> FALSE, widgetMap |-> FALSE,
          logged |-> TRUE, compile |-> FALSE]

\* the constructor has not been called by the page's own code
NoCtor == [called |-> FALSE]

\* what the directive and the constructor call leave alone
idleDirVars ==
    <<markers, mapMarkers, zoom, clListeners, clMarkers, clCurrent, clPending,
      clusterMapping, passes, last, groupCall, infobox, anchorListener,
      gmState, gmOwn, widget, gmPending, mapCall, db, hook>>

\* the page before the directive's controller runs: `views` are the objects
\* the directive assigned to $scope.googleMap, `emitted` the payloads of its
\* 'googleMapLoaded' events (positions in `views`), `attempts` the runs of
\* initMap, `signals` the broadcasts sent and `heard` those sent after the
\* controller ran
InitMount ==
    /\ markers = [m \in Ids |-> ProtoState]
    /\ mapMarkers = <<>>
    /\ zoom = 8
    /\ clListeners = 0
    /\ clMarkers = <<>>
    /\ clCurrent = <<>>
    /\ clPending = 0
    /\ clusterMapping = DefaultMapping
    /\ passes = 0
    /\ last = [op |-> "other", ran |-> FALSE, threw |-> FALSE]
    /\ groupCall = NoCall
    /\ infobox = [m \in Ids |-> "none"]
    /\ anchorListener = FALSE
    /\ gmState = [fittingBounds |-> FALSE, compile |-> TRUE]
    /\ gmOwn = "undefined"
    /\ widget = [center |-> DefaultCenter, boundsDue |-> FALSE]
    /\ gmPending = 0
    /\ mapCall = NoMapCall
    /\ db = NoDebounce
    /\ hook = NoHook
    /\ mount \in {[mounted |-> FALSE, google |-> g, manual |-> FALSE, subscribed |-> FALSE,
                   views |-> <<>>, emitted |-> <<>>, attempts |-> 0, signals |-> 0,
                   heard |-> 0, mapLoaded |-> FALSE, ctor |-> NoCtor] : g \in Libraries}

\* initMap(): the constructor is called with the template's inner element,
\* the scope and $compile; its result is stored in $scope.googleMap, emitted
\* with 'googleMapLoaded', and mapLoaded is set. An exception of the
\* constructor ends initMap before any of that
initMap(m) ==
    LET r == GoogleMapCtor(m.google, TRUE, TRUE, TRUE)
        tried == [m EXCEPT !.attempts = @ + 1]
    IN  IF r.threw
        THEN tried
        ELSE [tried EXCEPT !.views = Append(@, r),
                           !.emitted = Append(@, Len(m.views) + 1),
                           !.mapLoaded = TRUE]

\* the listener of 'initializeGoogleMap' that never unsubscribes
ListenerKeepsListening(before, after) == TRUE

\* the listener of 'initializeGoogleMap': initMap(), then unsubscribe(), which
\* an exception of initMap does not reach
ListenerStillSubscribed(before, after) == after.attempts > Len(after.views)

\* the directive's controller: in manual mode (scope flag or attribute) it
\* subscribes to 'initializeGoogleMap', otherwise it calls initMap at once
Controller(manual) ==
    /\ ~mount.mounted
    /\ LET m == [mount EXCEPT !.mounted = TRUE, !.manual = manual]
       IN  mount' = IF manual THEN [m EXCEPT !.subscribed = TRUE] ELSE initMap(m)
    /\ UNCHANGED idleDirVars

\* a broadcast of 'initializeGoogleMap': it reaches the listener while it is
\* subscribed
Signal ==
    /\ mount.signals < MaxSignals
    /\ LET m == [mount EXCEPT !.signals = @ + 1,
                             !.heard = IF mount.mounted THEN @ + 1 ELSE @]
           ran == initMap(m)
       IN  mount' = IF m.subscribed
                    THEN [ran EXCEPT !.subscribed = ListenerStillSubscribed(m, ran)]
                    ELSE m
    /\ UNCHANGED idleDirVars

\* the page's own code calls the constructor of the service
Construct(element, scope, compile) ==
    /\ mount' = [mount EXCEPT !.ctor =
                    [called |-> TRUE, element |-> element, scope |-> scope,
                     compile |-> compile,
                     result |-> GoogleMapCtor(mount.google, element, scope, compile)]]
    /\ UNCHANGED idleDirVars

NextMount ==
    \/ \E manual \in BOOLEAN : Controller(manual)
    \/ Signal
    \/ \E element \in BOOLEAN, scope \in BOOLEAN, compile \in BOOLEAN :
          Construct(element, scope, compile)

SpecMount == InitMount /\ [][NextMount]_vars

\* C28: a call of the constructor with the widget not loaded, or without the
\* container element, the binding context or the renderer, logs an error,
\* creates no widget map and yields no MapView
C28_CreationFails ==
    (/\ mount.ctor.called
     /\ \/ mount.google # "loaded"
        \/ ~mount.ctor.element
        \/ ~mount.ctor.scope
        \/ ~mount.ctor.compile)
    => /\ mount.ctor.result.logged
       /\ ~mount.ctor.result.threw
       /\ ~mount.ctor.result.widgetMap
       /\ ~(mount.ctor.result.object /\ mount.ctor.result.ownState)

\* C29: with the Maps API loaded, the directive creates the GoogleMap exactly
\* once per mounted element: at mount in automatic mode, at the first
\* 'initializeGoogleMap' broadcast after the mount in manual mode and never
\* again; 'googleMapLoaded' is emitted exactly once, and it carries the
\* GoogleMap that was created, with its widget map
C29_CreatedOnce ==
    mount.google = "loaded" =>
        LET due == IF mount.mounted /\ (~mount.manual \/ mount.heard >= 1) THEN 1 ELSE 0
        IN  /\ Len(mount.views) = due
            /\ mount.attempts = due
            /\ mount.emitted = [i \in 1..due |-> i]
            /\ mount.mapLoaded = (due = 1)
            /\ \A i \in 1..Len(mount.views) :
                  /\ mount.views[i].object
                  /\ mount.views[i].ownState
                  /\ mount.views[i].widgetMap

\* a manual mount that heard a second broadcast after the one that created
\* the map
C29_Witness ==
    /\ mount.google = "loaded"
    /\ mount.mounted
    /\ mount.manual
    /\ mount.heard >= 2
    /\ Len(mount.views) = 1
    /\ mount.emitted = <<1>>

\* ---------------------------------------------------------------------------
\* Cluster.resetCluster
\* ---------------------------------------------------------------------------

\* Cluster.resetCluster(): clearMarkers(), then the master list is replaced
\* by an empty array, unless clearMarkers ended with an exception
ResetClusterCall ==
    /\ LET r == ClearMarkers(World, Attached)
       IN /\ clMarkers' = IF r.threw THEN clMarkers ELSE <<>>
          /\ Commit(r.w)
          /\ Did("resetCluster", r.threw, FALSE)
          /\ UNCHANGED passes
    /\ UNCHANGED <<zoom, clListeners, clPending, clusterMapping, groupCall>>

NextReset ==
    \/ \E hasMap \in BOOLEAN : SetMap(hasMap)
    \/ \E arg \in AddArgs : AddMarkers(arg)
    \/ \E z \in ZoomLevels : ZoomChanged(z)
    \/ TimerFire
    \/ ResetClusterCall

SpecReset == Init /\ [][NextReset]_vars

\* C30: a call of resetCluster leaves the master list and the display
\* markers empty, and none of the markers displayed before the call is still
\* on the widget map or in the GoogleMap's tracked markers
C30_ResetLeavesNothing ==
    [][last'.op = "resetCluster" =>
          /\ clMarkers' = <<>>
          /\ clCurrent' = <<>>
          /\ \A i \in 1..Len(clCurrent) :
                /\ ~markers'[clCurrent[i]].wmap
                /\ IndexOf(mapMarkers', clCurrent[i]) = 0]_vars

\* ---------------------------------------------------------------------------
\* Zoom events, debounce timers and addMarkers / removeMarkers interleaved
\* ---------------------------------------------------------------------------

\* addMarkers and removeMarkers are called with markers: an array that is
\* not empty, or one Marker
FilledAddArgs == {arg \in AddArgs : Len(arg.items) > 0}
FilledRemoveArgs == {ms \in RemoveArgs : Len(ms) > 0}

\* every handler runs to its end before the next one starts: the calls and
\* the timer callbacks are the steps of one event loop
NextInterleave ==
    \/ SetMap(TRUE)
    \/ \E arg \in FilledAddArgs : AddMarkers(arg)
    \/ \E ms \in FilledRemoveArgs : RemoveMarkers(ms)
    \/ \E z \in ZoomLevels : ZoomChanged(z)
    \/ TimerFire

SpecInterleave == Init /\ [][NextInterleave]_vars

\* every display marker has its widget: no aggregate was constructed at a
\* latitude or longitude of 0
DisplayBuilt == \A i \in 1..Len(clCurrent) : markers[clCurrent[i]].widget

\* the display markers are those of a pass over the master list as it is, at
\* the zoom level as it is
DisplayIsCurrentGrouping ==
    IF Len(VisibleMarkers(markers, clMarkers)) = 0
    THEN clCurrent = <<>>
    ELSE LET r == PassGroups(markers, clMarkers, clusterMapping, zoom)
         IN  IF ~r.ok
             THEN clCurrent = <<>>
             ELSE /\ Len(clCurrent) = Len(r.groups)
                  /\ \A g \in 1..Len(r.groups) :
                       IF Len(r.groups[g].markers) > 1
                       THEN /\ clCurrent[g] \in AggIds
                            /\ getPosition(markers, clCurrent[g]) = r.groups[g].centroid
                            /\ markers[clCurrent[g]].members = r.groups[g].markers
                       ELSE clCurrent[g] = r.groups[g].markers[1]

Showable(w, m) == MarkerShow(w, m).w.mk[m].visible

\* C32: a clustering pass leaves every hidden marker of the master list as
\* re-showable as it was: if show() would have set visible = true before the
\* pass, it still does after it, so that the marker is in the next grouping
C32_HiddenStaysShowable ==
    [][\A m \in UserIds :
          ( /\ last'.ran
            /\ m \in Range(clMarkers)
            /\ ~markers[m].visible
            /\ Showable(World, m) )
          => Showable(World', m)]_vars

\* ---------------------------------------------------------------------------
\* The beforeCreate callback of a Cluster
\* ---------------------------------------------------------------------------

\* the arguments of new Marker in clusterMarkers
ArgKeys == {"lat", "lng", "map", "icon", "width", "height", "options", "label", "data"}

\* what the caller hands to onBeforeCreate: something that is no function, or
\* a function that returns nothing or an object with the keys `keys` ("note"
\* is no constructor argument)
NotAFunction == [function |-> FALSE, returns |-> FALSE, keys |-> {}]
Callbacks ==
    {[function |-> TRUE, returns |-> FALSE, keys |-> {}]}
      \cup {[function |-> TRUE, returns |-> TRUE, keys |-> ks] :
              ks \in { {}, {"label"}, {"lat", "lng"}, {"map", "icon"}, {"note", "data"},
                       ArgKeys }}

\* the values the callback's object gives its keys: the position of the
\* group's first marker, no map, and its own value for everything else
OverrideValue(mk, grp, k) ==
    CASE k = "lat" -> mk[grp.markers[1]].lat
      [] k = "lng" -> mk[grp.markers[1]].lng
      [] k = "map" -> FALSE
      [] OTHER -> "callback"

\* args as clusterMarkers first builds it: the centroid, the cluster's map
\* and what the Cluster was constructed with
TemplateValue(grp, k) ==
    CASE k = "lat" -> grp.centroid.lat
      [] k = "lng" -> grp.centroid.lng
      [] k = "map" -> TRUE
      [] OTHER -> "cluster"

\* args with no key of the callback's object copied into it
BuildArgsTemplateOnly(mk, grp, cb) == [k \in ArgKeys |-> TemplateValue(grp, k)]

\* args after `if ( this.events.beforeCreate )`: every key of the object the
\* callback returned is copied into args; the constructor reads the nine
\* arguments from it
BuildArgs(mk, grp, cb) ==
    LET copied == IF cb.function /\ cb.returns THEN cb.keys ELSE {}
    IN  [k \in ArgKeys |-> IF k \in copied THEN OverrideValue(mk, grp, k)
                           ELSE TemplateValue(grp, k)]

\* one group of groups.forEach with the callback cb registered (or none): the
\* callback is called, then the aggregate is constructed from args, on the
\* map args names or on none
BuildGroupHooked(w, grp, cb) ==
    IF Len(grp.markers) > 1
    THEN LET id == NextAggId(w.mk)
             args == BuildArgs(w.mk, grp, cb)
             w1 == [w EXCEPT !.log = Append(@, [group |-> grp.markers,
                                                called |-> cb.function,
                                                constructed |-> w.mk[id].created,
                                                args |-> args])]
         IN  PushClusterMarker(
                IF args.map
                THEN NewMarkerOnMap(w1, id, args.lat, args.lng)
                ELSE Ok([w1 EXCEPT !.mk[id] = NewMarkerState(args.lat, args.lng)]),
                id, grp.markers)
    ELSE Ok([w EXCEPT !.cur = Append(w.cur, grp.markers[1])])

RECURSIVE HookBuildLoop(_, _, _, _)
\* groups.forEach of clusterMarkers
HookBuildLoop(w, groups, g, cb) ==
    IF g > Len(groups) THEN Ok(w)
    ELSE LET r == BuildGroupHooked(w, groups[g], cb)
         IN IF r.threw THEN r ELSE HookBuildLoop(r.w, groups, g + 1, cb)

\* clusterMarkers of a cluster that has its map, with the callback cb
hookedClusterMarkers(w, master, mapping, mapZoom, cb) ==
    LET c == ClearMarkers(w, TRUE)
        groups == PassGroups(c.w.mk, master, mapping, mapZoom)
    IN  IF c.threw THEN Ran(c)
        ELSE IF Len(master) = 0 THEN Ran(c)
        ELSE IF EmptyArray \in Range(master) THEN Ran(Fail(c.w))
        ELSE IF Len(VisibleMarkers(c.w.mk, master)) = 0 THEN Ran(c)
        ELSE IF groups.threw THEN Ran(Fail(c.w))
        ELSE IF ~groups.ok \/ Len(groups.groups) = 0 THEN Ran(Ok(c.w))
        ELSE AfterBuild(HookBuildLoop([c.w EXCEPT !.reached = TRUE], groups.groups, 1, cb))

\* the cluster as constructed: no callback; `used` is the callback of the
\* latest pass, `log` its calls and constructor arguments, `reached` whether
\* that pass got to groups.forEach
InitHook ==
    /\ markers = [m \in Ids |-> IF m \in UserIds
                                THEN NewMarkerState(PoolPos(m).lat, PoolPos(m).lng)
                                ELSE ProtoState]
    /\ mapMarkers = <<>>
    /\ zoom = 8
    /\ clListeners = 0
    /\ clMarkers = <<>>
    /\ clCurrent = <<>>
    /\ clPending = 0
    /\ clusterMapping = DefaultMapping
    /\ passes = 0
    /\ last = [op |-> "other", ran |-> FALSE, threw |-> FALSE]
    /\ groupCall = NoCall
    /\ infobox = [m \in Ids |-> "none"]
    /\ anchorListener = FALSE
    /\ gmState = [fittingBounds |-> FALSE, compile |-> TRUE]
    /\ gmOwn = "undefined"
    /\ widget = [center |-> DefaultCenter, boundsDue |-> FALSE]
    /\ gmPending = 0
    /\ mapCall = NoMapCall
    /\ db = NoDebounce
    /\ mount = NoMount
    /\ hook = [registered |-> FALSE, callback |-> NotAFunction, used |-> NotAFunction,
               reached |-> FALSE, log |-> <<>>]

hookFrame ==
    UNCHANGED <<anchorListener, gmState, gmOwn, widget, gmPending, mapCall, db, mount>>

\* a pass of the cluster with the callback registered at the time
HookedPass(op, attached, master) ==
    IF attached
    THEN /\ passes < MaxPasses
         /\ LET w0 == [mk |-> markers, mm |-> mapMarkers, cur |-> clCurrent, ib |-> infobox,
                       log |-> <<>>, reached |-> FALSE]
                r == hookedClusterMarkers(w0, master, clusterMapping, zoom, hook.callback)
            IN  /\ CommitWorld(r.w)
                /\ Did(op, r.threw, TRUE)
                /\ hook' = [hook EXCEPT !.used = hook.callback, !.reached = r.w.reached,
                                        !.log = r.w.log]
         /\ passes' = passes + 1
         /\ hookFrame
    ELSE /\ NoPass(op)

\* Cluster.onBeforeCreate( callback )
OnBeforeCreate(cb) ==
    /\ hook' = IF cb.function
               THEN [hook EXCEPT !.registered = TRUE, !.callback = cb]
               ELSE hook
    /\ CommitWorld(World)
    /\ Did("onBeforeCreate", FALSE, FALSE)
    /\ hookFrame
    /\ UNCHANGED <<passes, zoom, clListeners, clMarkers, clPending, clusterMapping, groupCall>>

\* Cluster.setMap( map ) with the callback
HookSetMap ==
    /\ clListeners < MaxListeners
    /\ clListeners' = clListeners + 1
    /\ IF Len(clMarkers) > 0 THEN HookedPass("setMap", TRUE, clMarkers) ELSE NoPass("setMap")
    /\ UNCHANGED <<zoom, clMarkers, clPending, clusterMapping, groupCall>>

\* Cluster.addMarkers( markers ) with the callback
HookAddMarkers(arg) ==
    /\ Len(pushMarkers(clMarkers, arg)) <= MaxMaster
    /\ \A i \in 1..Len(arg.items), j \in 1..Len(clMarkers) : clMarkers[j] < arg.items[i]
    /\ clMarkers' = pushMarkers(clMarkers, arg)
    /\ HookedPass("addMarkers", Attached, pushMarkers(clMarkers, arg))
    /\ UNCHANGED <<zoom, clListeners, clPending, clusterMapping, groupCall>>

\* the zoom listener's timer with the callback
HookTimerFire ==
    /\ clPending > 0
    /\ clPending' = clPending - 1
    /\ IF Len(clMarkers) > 0
       THEN HookedPass("zoomTimer", Attached, clMarkers)
       ELSE NoPass("zoomTimer")
    /\ UNCHANGED <<zoom, clListeners, clMarkers, clusterMapping, groupCall>>

NextHook ==
    \/ \E cb \in Callbacks \cup {NotAFunction} : OnBeforeCreate(cb)
    \/ HookSetMap
    \/ \E arg \in FilledAddArgs : HookAddMarkers(arg)
    \/ \E z \in ZoomLevels : ZoomChanged(z)
    \/ HookTimerFire

SpecHook == InitHook /\ [][NextHook]_vars

\* the groups of more than one marker, in the order of the groups
MultiGroups(groups) == SelectSeq(groups, LAMBDA grp : Len(grp.markers) > 1)

\* C33: right after a pass that got to the groups, a registered beforeCreate callback
\* is called once for each group of more than one marker, in the order of
\* the groups and before the group's aggregate is constructed; every
\* constructor argument the returned object names has the object's value,
\* every other one the centroid or the cluster's own value
C33_HookOverridesArgs ==
    (last.ran /\ hook.reached /\ hook.used.function) =>
        LET multi == MultiGroups(PassGroups(markers, clMarkers, clusterMapping, zoom).groups)
        IN  /\ Len(hook.log) = Len(multi)
            /\ \A i \in 1..Len(hook.log) :
                  /\ hook.log[i].group = multi[i].markers
                  /\ hook.log[i].called
                  /\ ~hook.log[i].constructed
                  /\ \A k \in ArgKeys :
                        hook.log[i].args[k] =
                           IF hook.used.returns /\ k \in hook.used.keys
                           THEN OverrideValue(markers, multi[i], k)
                           ELSE TemplateValue(multi[i], k)

\* a pass built an aggregate of two markers with a callback that moves it to
\* the first marker's position: the aggregate stands there
C33_Witness ==
    /\ last.ran /\ ~last.threw /\ hook.reached
    /\ hook.used.returns /\ hook.used.keys = {"lat", "lng"}
    /\ Len(hook.log) = 1
    /\ Len(hook.log[1].group) = 2
    /\ \E a \in AggIds \cap Range(clCurrent) :
          getPosition(markers, a) = getPosition(markers, hook.log[1].group[1])

\* ---------------------------------------------------------------------------
\* Marker.remove and the GoogleMap's list
\* ---------------------------------------------------------------------------

\* C34: marker.remove() on a marker that has a map takes the widget marker
\* off the google.maps.Map, clears the marker's map and removes the marker
\* from the GoogleMap's tracked markers
C34_RemoveUpdatesBookkeeping ==
    [][ (mapCall'.op = "remove" /\ markers[mapCall'.arg[1]].map)
        => /\ ~mapCall'.threw
           /\ ~markers'[mapCall'.arg[1]].wmap
           /\ ~markers'[mapCall'.arg[1]].map
           /\ mapCall'.arg[1] \notin Range(mapMarkers') ]_vars

\* C35: with the mapping as shipped, the grouping of a pass at a zoom level
\* above 15 puts every marker in a group of its own, however close the
\* markers are: the pass builds no aggregate
C35_NoGroupingAboveFifteen ==
    (groupCall.kind = "pass" /\ clusterMapping = DefaultMapping /\ zoom > 15)
        => /\ ~groupCall.result.threw
           /\ \A g \in 1..Len(ResultGroups) : Len(ResultGroups[g].markers) = 1

\* ---------------------------------------------------------------------------
\* The grouping policy of several Cluster objects
\* ---------------------------------------------------------------------------

\* the cluster of the model and two more: one constructed before the calls,
\* one constructed after them
Clusters == {"this", "earlier", "later"}

\* this.config of a Cluster: the constructor copies state and events into
\* the new object and leaves config alone, so for every object it is the one
\* Cluster.prototype.config that setClusterZoomMapping writes into
InstanceConfig(c) == clusterMapping

\* C36: setClusterZoomMapping called on one Cluster leaves the grouping
\* distance of every other Cluster, at every zoom level, as it was
C36_OwnGroupingPolicy ==
    [][(\E arg \in DistanceArgs : DistanceMapping(arg))
         => \A c \in Clusters \ {"this"}, z \in 0..22 :
               getGroupingDistance(InstanceConfig(c)', z)
                 = getGroupingDistance(InstanceConfig(c), z)]_vars

\* C37: every marker the GoogleMap tracks has that GoogleMap as its map,
\* whatever calls of addMarkers, removeMarker, clearMarkers, addToMap,
\* remove, show and hide have been made
C37_TrackedMarkersKnowTheirMap ==
    \A i \in 1..Len(mapMarkers) : markers[mapMarkers[i]].map

\* C38: new Marker at a position whose latitude and longitude are numbers,
\* a latitude or a longitude of 0 included, yields a Marker with a
\* google.maps marker at that position
C38_CreationAtZero ==
    [][\A m \in UserIds, attach \in BOOLEAN :
          \A pos \in MarkerPositions(m) :
             NewMarker(m, pos, attach)
               => /\ ~mapCall'.threw
                  /\ markers'[m].widget
                  /\ getPosition(markers', m) = pos]_vars

\* ---------------------------------------------------------------------------
\* Cluster.removeMarker and the zoom listener
\* ---------------------------------------------------------------------------

\* Cluster.removeMarker( marker ): the marker is spliced out of the master
\* list; no pass runs
RemoveMarkerCall(m) ==
    /\ clMarkers' = removeMarker(clMarkers, m)
    /\ NoPass("removeMarker")
    /\ UNCHANGED <<zoom, clListeners, clPending, clusterMapping, groupCall>>

NextRemove ==
    \/ SetMap(TRUE)
    \/ \E arg \in FilledAddArgs : AddMarkers(arg)
    \/ \E m \in UserIds : RemoveMarkerCall(m)
    \/ \E z \in ZoomLevels : ZoomChanged(z)
    \/ TimerFire

SpecRemove == Init /\ [][NextRemove]_vars

\* C39: once the debounced zoom listener has run to its end, no marker that
\* was taken out of the master list is displayed, neither itself nor as a
\* member of an aggregate, also when the master list is left empty
C39_RemovedNotDisplayed ==
    (Attached /\ last.op = "zoomTimer" /\ ~last.threw)
        => \A m \in UserIds \ Range(clMarkers) : Representing(m) = {}

\* C40: in the groups a call of group returns, the first members of two
\* different groups are more than the grouping distance apart; the marker of
\* a leftover group of one counts as its first member
C40_SeedsApart ==
    groupCall.result.ok =>
      \A g, h \in 1..Len(ResultGroups) :
        g # h =>
          computeDistanceBetween(getPosition(markers, ResultGroups[g].markers[1]),
                                 getPosition(markers, ResultGroups[h].markers[1]))
            > EffectiveDistance

\* a group of two and a leftover marker that is within the distance of the
\* group's second member, but not of its first
C40_Witness ==
    /\ groupCall.result.ok
    /\ Len(ResultGroups) = 2
    /\ Len(ResultGroups[1].markers) = 2
    /\ Len(ResultGroups[2].markers) = 1
    /\ computeDistanceBetween(getPosition(markers, ResultGroups[1].markers[2]),
                              getPosition(markers, ResultGroups[2].markers[1]))
         <= EffectiveDistance

====
